---- MODULE Spec2Model ----
(***************************************************************************)
(* A model of the naming-guide RAG assistant: the Streamlit application    *)
(* app.py (session state, callbacks, the run block that drives extractor   *)
(* -> three searchers -> fusion -> generator/analyzer and appends to the   *)
(* history) and the HTTP entry point function_app.py (main).               *)
(*                                                                         *)
(* Texts that the code splits, trims or joins are sequences of one-        *)
(* character strings; a literal of the source that is never taken apart is *)
(* kept as one element.  Values read from a search hit are tagged Python   *)
(* values (None, str, float, list).  Every external call (completion,      *)
(* embedding, search) is an input chosen from a bounded set of outcomes.   *)
(***************************************************************************)
EXTENDS Integers, Sequences, FiniteSets, TLC

VARIABLES
    program,            \* which deployed program this behaviour is of: "app" or "function_app"
    \* ---- app.py 24-79: the environment the process was started in and
    \*      whether the clients can be constructed from it
    startup,
    \* ---- st.session_state of app.py
    run_rag,
    user_input,
    is_processing,
    show_warning,
    history,
    show_warning_empty,
    current_result,
    show_result,
    uploaded_file,
    \* ---- widget value of st.file_uploader (app.py)
    file_uploader,
    \* ---- the disabled attribute the run button was last rendered with (app.py 485-491)
    run_button_disabled,
    \* ---- position in the script / in main, and the locals of the run
    pc,
    is_file_analysis,
    user_request,
    code_content,
    keywords_list,
    search_query,
    rules_context,
    dictionary_context,
    qa_context,
    all_context,
    final_answer,
    \* ---- function_app.py: the HTTP request being served and the response returned
    req,
    http_response,
    \* ---- observation: the external calls made for the current request, and
    \*      the fate of every request started so far, in submission order
    calls,
    requests,
    \* ---- observation: what the user handed in with the last request started
    \*      in app.py (the text, the file of the uploader, the button pressed)
    submission,
    \* ---- one function applied on its own: the arguments drawn and the value returned
    unit_arg,
    unit_ret

session == <<run_rag, user_input, is_processing, show_warning, history,
             show_warning_empty, current_result, show_result, uploaded_file>>
locals == <<is_file_analysis, user_request, code_content, keywords_list, search_query,
            rules_context, dictionary_context, qa_context, all_context, final_answer>>
unit == <<unit_arg, unit_ret>>
vars == <<program, startup, session, file_uploader, run_button_disabled, pc, locals,
          req, http_response, calls, requests,
          submission, unit>>

(***************************************************************************)
(* Bounds of the model.                                                    *)
(***************************************************************************)
\* most comma-separated pieces in a completion response given to the extractor
MaxTokens == 6
\* most hits one search call returns in the single-request specifications
MaxHits == 2
\* most requests started in one session
MaxRequests == 2
\* most hits of a search call when a searcher is applied on its own
MaxUnitHits == 1
\* most items of the data file of an ingestion script
MaxDocs == 2
\* most characters of a code content rendered on its own
MaxCode == 4

(***************************************************************************)
(* Python values and texts.                                                *)
(***************************************************************************)
PyNone == [t |-> "None"]
PyStr(s) == [t |-> "str", v |-> s]
PyFloat(n) == [t |-> "float", v |-> n]
PyList(l) == [t |-> "list", v |-> l]
PyInt(n) == [t |-> "int", v |-> n]
\* a dict: its items, and its keys in the order they were inserted in
PyDict(keys, entries) == [t |-> "dict", v |-> entries, keys |-> keys]
\* d[key] = value
set_item(d, key, value) ==
    [t |-> "dict", v |-> (key :> value) @@ d.v,
     keys |-> IF key \in DOMAIN d.v THEN d.keys ELSE Append(d.keys, key)]
\* del d[key]
del_item(d, key) ==
    [t |-> "dict", v |-> [k \in DOMAIN d.v \ {key} |-> d.v[k]],
     keys |-> SelectSeq(d.keys, LAMBDA k : k # key)]

\* characters str.strip() removes: those str.isspace() holds for.  A character
\* that has no escape in a string here is written by its code point.
Whitespace ==
    {" ", "\t", "\n", "\r", "\f", "<U+000B>", "<U+001C>", "<U+001D>", "<U+001E>",
     "<U+001F>", "<U+0085>", "<U+00A0>", "<U+1680>", "<U+2000>", "<U+2001>",
     "<U+2002>", "<U+2003>", "<U+2004>", "<U+2005>", "<U+2006>", "<U+2007>",
     "<U+2008>", "<U+2009>", "<U+200A>", "<U+2028>", "<U+2029>", "<U+202F>",
     "<U+205F>", "<U+3000>"}

RECURSIVE lstrip(_)
lstrip(s) ==
    IF s = <<>> THEN <<>>
    ELSE IF Head(s) \in Whitespace THEN lstrip(Tail(s)) ELSE s

RECURSIVE rstrip(_)
rstrip(s) ==
    IF s = <<>> THEN <<>>
    ELSE IF s[Len(s)] \in Whitespace THEN rstrip(SubSeq(s, 1, Len(s) - 1)) ELSE s

\* str.strip()
strip(s) == rstrip(lstrip(s))

\* str.split(sep) for a one-character sep: always at least one piece
RECURSIVE split(_, _)
split(s, sep) ==
    IF s = <<>> THEN << <<>> >>
    ELSE IF Head(s) = sep THEN << <<>> >> \o split(Tail(s), sep)
    ELSE LET rest == split(Tail(s), sep)
         IN  << <<Head(s)>> \o Head(rest) >> \o Tail(rest)

\* sep.join(parts)
RECURSIVE join(_, _)
join(sep, parts) ==
    IF parts = <<>> THEN <<>>
    ELSE IF Len(parts) = 1 THEN parts[1]
    ELSE parts[1] \o sep \o join(sep, Tail(parts))

\* [f(k) for k in parts]: a variant of strip_nonempty that keeps the empty tokens
RECURSIVE strip_all(_)
strip_all(parts) ==
    IF parts = <<>> THEN <<>>
    ELSE <<strip(Head(parts))>> \o strip_all(Tail(parts))

\* [f(k) for k in parts if keep(k)] with f = keep = strip
RECURSIVE strip_nonempty(_)
strip_nonempty(parts) ==
    IF parts = <<>> THEN <<>>
    ELSE IF strip(Head(parts)) # <<>>
         THEN <<strip(Head(parts))>> \o strip_nonempty(Tail(parts))
         ELSE strip_nonempty(Tail(parts))

OR_SEP == <<" ", "O", "R", " ">>

(***************************************************************************)
(* What a function does to the outside: the calls to the completion, the   *)
(* embedding and the search service, and the errors it logs                *)
(* (logging.error), in the order it makes them.                            *)
(***************************************************************************)
Call(svc, who, text, context, vector_queries, top) ==
    [svc |-> svc, who |-> who, text |-> text, context |-> context,
     vector_queries |-> vector_queries, top |-> top]

EmbedCall(who, text) == Call("embed", who, text, <<>>, <<>>, 0)
Log(who) == Call("log", who, <<>>, <<>>, <<>>, 0)

(***************************************************************************)
(* Outcomes of the completion call of the extractor:                       *)
(*   "raise" the call raises; "none" the message content is None (so       *)
(*   .strip() raises AttributeError); "text" the content is a string.      *)
(***************************************************************************)
CompletionRaises == [kind |-> "raise", content |-> <<>>]
CompletionNone == [kind |-> "none", content |-> <<>>]
CompletionText(s) == [kind |-> "text", content |-> s]

\* a variant of extract_keywords_with_llm whose fallback keeps no keyword
extract_keywords_with_llm_empty_fallback(request, outcome) ==
    IF outcome.kind = "text"
    THEN LET keywords_str == strip(outcome.content)
             kl == strip_nonempty(split(keywords_str, ","))
         IN  <<kl, join(OR_SEP, kl)>>
    ELSE << <<>>, <<>> >>

\* a variant of extract_keywords_with_llm that falls back to the request when
\* the response holds no keyword
extract_keywords_with_llm_never_empty(request, outcome) ==
    IF outcome.kind = "text"
    THEN LET keywords_str == strip(outcome.content)
             kl == strip_nonempty(split(keywords_str, ","))
         IN  IF kl = <<>> THEN <<<<request>>, request>> ELSE <<kl, join(OR_SEP, kl)>>
    ELSE <<<<request>>, request>>

\* app.py extract_keywords_with_llm: <<keywords_list, search_query>>
extract_keywords_with_llm(request, outcome) ==
    IF outcome.kind = "text"
    THEN LET keywords_str == strip(outcome.content)
             kl == strip_nonempty(split(keywords_str, ","))
         IN  <<kl, join(OR_SEP, kl)>>
    ELSE <<<<request>>, request>>

\* app.py extract_keywords_with_llm: the completion call, and the error logged
\* when the fallback is taken
extract_calls(request, outcome) ==
    <<Call("complete", "extract", request, <<>>, <<>>, 0)>>
    \o (IF outcome.kind = "text" THEN <<>> ELSE <<Log("extract")>>)

\* function_app.py extract_keywords_with_llm: <<keywords_list, search_query>>
fa_extract_keywords_with_llm(request, outcome) ==
    IF outcome.kind = "text"
    THEN LET keywords_str == strip(outcome.content)
             kl == strip_nonempty(split(keywords_str, ","))
         IN  <<kl, join(OR_SEP, kl)>>
    ELSE <<<<request>>, request>>

\* function_app.py extract_keywords_with_llm: the completion call, and the
\* error logged when the fallback is taken
fa_extract_calls(request, outcome) ==
    <<Call("complete", "extract", request, <<>>, <<>>, 0)>>
    \o (IF outcome.kind = "text" THEN <<>> ELSE <<Log("extract")>>)

(***************************************************************************)
(* Characters: code points, case mappings, UTF-8 lengths.                  *)
(***************************************************************************)
\* A character of a text is written as itself when it is a printable character
\* of ASCII, as "<U+XXXX>" with its code point in four to six hexadecimal
\* digits otherwise; the Hangul syllables of the sample dictionary are written
\* in romanised form.  An element of a text that is none of these is a run of
\* literal text of the program, which no operation on characters is applied to.

\* the characters of ASCII in the order of their codes, from 0.  A character
\* that a string cannot hold is written by its code point, as are
\* the characters above ASCII
ASCII ==
    << "<U+0000>", "<U+0001>", "<U+0002>", "<U+0003>", "<U+0004>", "<U+0005>", "<U+0006>", "<U+0007>",
       "<U+0008>", "\t", "\n", "<U+000B>", "\f", "\r", "<U+000E>", "<U+000F>",
       "<U+0010>", "<U+0011>", "<U+0012>", "<U+0013>", "<U+0014>", "<U+0015>", "<U+0016>", "<U+0017>",
       "<U+0018>", "<U+0019>", "<U+001A>", "<U+001B>", "<U+001C>", "<U+001D>", "<U+001E>", "<U+001F>",
       " ", "!", "\"", "#", "$", "%", "&", "'",
       "(", ")", "*", "+", ",", "-", ".", "/",
       "0", "1", "2", "3", "4", "5", "6", "7",
       "8", "9", ":", ";", "<", "=", ">", "?",
       "@", "A", "B", "C", "D", "E", "F", "G",
       "H", "I", "J", "K", "L", "M", "N", "O",
       "P", "Q", "R", "S", "T", "U", "V", "W",
       "X", "Y", "Z", "[", "\\", "]", "^", "_",
       "<U+0060>", "a", "b", "c", "d", "e", "f", "g",
       "h", "i", "j", "k", "l", "m", "n", "o",
       "p", "q", "r", "s", "t", "u", "v", "w",
       "x", "y", "z", "{", "|", "}", "~", "<U+007F>" >>

ASCII_CODE ==
    [c \in {ASCII[i] : i \in 1..Len(ASCII)} |-> (CHOOSE i \in 1..Len(ASCII) : ASCII[i] = c) - 1]
ASCII_SET == DOMAIN ASCII_CODE

\* the two cases of each character of ASCII
ASCII_UPPER ==
    [c \in ASCII_SET |->
       IF ASCII_CODE[c] \in \h61..\h7A THEN ASCII[ASCII_CODE[c] - \h20 + 1] ELSE c]
ASCII_LOWER ==
    [c \in ASCII_SET |->
       IF ASCII_CODE[c] \in \h41..\h5A THEN ASCII[ASCII_CODE[c] + \h20 + 1] ELSE c]

isascii(s) == \A i \in 1..Len(s) : s[i] \in ASCII_SET

\* the code points of the romanised syllables
HANGUL ==
    [sang |-> \hC0C1, pum |-> \hD488, jae |-> \hC7AC, go |-> \hACE0, jeol |-> \hC808,
     hal |-> \hD560, in |-> \hC778, jeong |-> \hC815, ga |-> \hAC00]
HANGUL_SET == DOMAIN HANGUL

HEX_DIGITS == <<"0", "1", "2", "3", "4", "5", "6", "7", "8", "9", "A", "B", "C", "D", "E", "F">>

\* the number a text of hexadecimal digits writes
RECURSIVE hex_value(_)
hex_value(digits) ==
    IF digits = "" THEN 0
    ELSE 16 * hex_value(SubSeq(digits, 1, Len(digits) - 1))
         + (CHOOSE d \in 0..15 : HEX_DIGITS[d + 1] = SubSeq(digits, Len(digits), Len(digits)))

\* the hexadecimal digits of n, four at least
RECURSIVE hex_digits(_, _)
hex_digits(n, width) ==
    IF n = 0 /\ width <= 0 THEN ""
    ELSE hex_digits(n \div 16, width - 1) \o HEX_DIGITS[(n % 16) + 1]

is_code_point(c) ==
    /\ Len(c) \in 8..10
    /\ SubSeq(c, 1, 3) = "<U+"
    /\ SubSeq(c, Len(c), Len(c)) = ">"

\* ord(c) of a character, -1 of a run of literal text
ord(c) ==
    IF c \in ASCII_SET THEN ASCII_CODE[c]
    ELSE IF c \in HANGUL_SET THEN HANGUL[c]
    ELSE IF is_code_point(c) THEN hex_value(SubSeq(c, 4, Len(c) - 1))
    ELSE -1

\* chr(n), in the writing of the model
chr(n) ==
    IF n < Len(ASCII) THEN ASCII[n + 1]
    ELSE IF \E c \in HANGUL_SET : HANGUL[c] = n THEN CHOOSE c \in HANGUL_SET : HANGUL[c] = n
    ELSE "<U+" \o hex_digits(n, 4) \o ">"

\* the characters str.upper() maps to one other character, by their code
\* points: <<first, last, step, upper of first>> stands for the characters
\* first, first + step, ... up to last, each mapped as far from itself as
\* first is
UPPER_RANGES ==
    << <<\h61, \h7A, 1, \h41>>, <<\hB5, \hB5, 1, \h39C>>, <<\hE0, \hF6, 1, \hC0>>,
       <<\hF8, \hFE, 1, \hD8>>, <<\hFF, \hFF, 1, \h178>>, <<\h101, \h12F, 2, \h100>>,
       <<\h131, \h131, 1, \h49>>, <<\h133, \h137, 2, \h132>>, <<\h13A, \h148, 2, \h139>>,
       <<\h14B, \h177, 2, \h14A>>, <<\h17A, \h17E, 2, \h179>>, <<\h17F, \h17F, 1, \h53>>,
       <<\h180, \h180, 1, \h243>>, <<\h183, \h185, 2, \h182>>, <<\h188, \h188, 1, \h187>>,
       <<\h18C, \h18C, 1, \h18B>>, <<\h192, \h192, 1, \h191>>, <<\h195, \h195, 1, \h1F6>>,
       <<\h199, \h199, 1, \h198>>, <<\h19A, \h19A, 1, \h23D>>, <<\h19E, \h19E, 1, \h220>>,
       <<\h1A1, \h1A5, 2, \h1A0>>, <<\h1A8, \h1A8, 1, \h1A7>>, <<\h1AD, \h1AD, 1, \h1AC>>,
       <<\h1B0, \h1B0, 1, \h1AF>>, <<\h1B4, \h1B6, 2, \h1B3>>, <<\h1B9, \h1B9, 1, \h1B8>>,
       <<\h1BD, \h1BD, 1, \h1BC>>, <<\h1BF, \h1BF, 1, \h1F7>>, <<\h1C5, \h1C5, 1, \h1C4>>,
       <<\h1C6, \h1C6, 1, \h1C4>>, <<\h1C8, \h1C8, 1, \h1C7>>, <<\h1C9, \h1C9, 1, \h1C7>>,
       <<\h1CB, \h1CB, 1, \h1CA>>, <<\h1CC, \h1CC, 1, \h1CA>>, <<\h1CE, \h1DC, 2, \h1CD>>,
       <<\h1DD, \h1DD, 1, \h18E>>, <<\h1DF, \h1EF, 2, \h1DE>>, <<\h1F2, \h1F2, 1, \h1F1>>,
       <<\h1F3, \h1F3, 1, \h1F1>>, <<\h1F5, \h1F5, 1, \h1F4>>, <<\h1F9, \h21F, 2, \h1F8>>,
       <<\h223, \h233, 2, \h222>>, <<\h23C, \h23C, 1, \h23B>>, <<\h23F, \h240, 1, \h2C7E>>,
       <<\h242, \h242, 1, \h241>>, <<\h247, \h24F, 2, \h246>>, <<\h250, \h250, 1, \h2C6F>>,
       <<\h251, \h251, 1, \h2C6D>>, <<\h252, \h252, 1, \h2C70>>, <<\h253, \h253, 1, \h181>>,
       <<\h254, \h254, 1, \h186>>, <<\h256, \h257, 1, \h189>>, <<\h259, \h259, 1, \h18F>>,
       <<\h25B, \h25B, 1, \h190>>, <<\h25C, \h25C, 1, \hA7AB>>, <<\h260, \h260, 1, \h193>>,
       <<\h261, \h261, 1, \hA7AC>>, <<\h263, \h263, 1, \h194>>, <<\h265, \h265, 1, \hA78D>>,
       <<\h266, \h266, 1, \hA7AA>>, <<\h268, \h268, 1, \h197>>, <<\h269, \h269, 1, \h196>>,
       <<\h26A, \h26A, 1, \hA7AE>>, <<\h26B, \h26B, 1, \h2C62>>, <<\h26C, \h26C, 1, \hA7AD>>,
       <<\h26F, \h26F, 1, \h19C>>, <<\h271, \h271, 1, \h2C6E>>, <<\h272, \h272, 1, \h19D>>,
       <<\h275, \h275, 1, \h19F>>, <<\h27D, \h27D, 1, \h2C64>>, <<\h280, \h280, 1, \h1A6>>,
       <<\h282, \h282, 1, \hA7C5>>, <<\h283, \h283, 1, \h1A9>>, <<\h287, \h287, 1, \hA7B1>>,
       <<\h288, \h288, 1, \h1AE>>, <<\h289, \h289, 1, \h244>>, <<\h28A, \h28B, 1, \h1B1>>,
       <<\h28C, \h28C, 1, \h245>>, <<\h292, \h292, 1, \h1B7>>, <<\h29D, \h29D, 1, \hA7B2>>,
       <<\h29E, \h29E, 1, \hA7B0>>, <<\h345, \h345, 1, \h399>>, <<\h371, \h373, 2, \h370>>,
       <<\h377, \h377, 1, \h376>>, <<\h37B, \h37D, 1, \h3FD>>, <<\h3AC, \h3AC, 1, \h386>>,
       <<\h3AD, \h3AF, 1, \h388>>, <<\h3B1, \h3C1, 1, \h391>>, <<\h3C2, \h3C2, 1, \h3A3>>,
       <<\h3C3, \h3CB, 1, \h3A3>>, <<\h3CC, \h3CC, 1, \h38C>>, <<\h3CD, \h3CE, 1, \h38E>>,
       <<\h3D0, \h3D0, 1, \h392>>, <<\h3D1, \h3D1, 1, \h398>>, <<\h3D5, \h3D5, 1, \h3A6>>,
       <<\h3D6, \h3D6, 1, \h3A0>>, <<\h3D7, \h3D7, 1, \h3CF>>, <<\h3D9, \h3EF, 2, \h3D8>>,
       <<\h3F0, \h3F0, 1, \h39A>>, <<\h3F1, \h3F1, 1, \h3A1>>, <<\h3F2, \h3F2, 1, \h3F9>>,
       <<\h3F3, \h3F3, 1, \h37F>>, <<\h3F5, \h3F5, 1, \h395>>, <<\h3F8, \h3F8, 1, \h3F7>>,
       <<\h3FB, \h3FB, 1, \h3FA>>, <<\h430, \h44F, 1, \h410>>, <<\h450, \h45F, 1, \h400>>,
       <<\h461, \h481, 2, \h460>>, <<\h48B, \h4BF, 2, \h48A>>, <<\h4C2, \h4CE, 2, \h4C1>>,
       <<\h4CF, \h4CF, 1, \h4C0>>, <<\h4D1, \h52F, 2, \h4D0>>, <<\h561, \h586, 1, \h531>>,
       <<\h10D0, \h10FA, 1, \h1C90>>, <<\h10FD, \h10FF, 1, \h1CBD>>, <<\h13F8, \h13FD, 1, \h13F0>>,
       <<\h1C80, \h1C80, 1, \h412>>, <<\h1C81, \h1C81, 1, \h414>>, <<\h1C82, \h1C82, 1, \h41E>>,
       <<\h1C83, \h1C84, 1, \h421>>, <<\h1C85, \h1C85, 1, \h422>>, <<\h1C86, \h1C86, 1, \h42A>>,
       <<\h1C87, \h1C87, 1, \h462>>, <<\h1C88, \h1C88, 1, \hA64A>>, <<\h1D79, \h1D79, 1, \hA77D>>,
       <<\h1D7D, \h1D7D, 1, \h2C63>>, <<\h1D8E, \h1D8E, 1, \hA7C6>>, <<\h1E01, \h1E95, 2, \h1E00>>,
       <<\h1E9B, \h1E9B, 1, \h1E60>>, <<\h1EA1, \h1EFF, 2, \h1EA0>>, <<\h1F00, \h1F07, 1, \h1F08>>,
       <<\h1F10, \h1F15, 1, \h1F18>>, <<\h1F20, \h1F27, 1, \h1F28>>, <<\h1F30, \h1F37, 1, \h1F38>>,
       <<\h1F40, \h1F45, 1, \h1F48>>, <<\h1F51, \h1F57, 2, \h1F59>>, <<\h1F60, \h1F67, 1, \h1F68>>,
       <<\h1F70, \h1F71, 1, \h1FBA>>, <<\h1F72, \h1F75, 1, \h1FC8>>, <<\h1F76, \h1F77, 1, \h1FDA>>,
       <<\h1F78, \h1F79, 1, \h1FF8>>, <<\h1F7A, \h1F7B, 1, \h1FEA>>, <<\h1F7C, \h1F7D, 1, \h1FFA>>,
       <<\h1FB0, \h1FB1, 1, \h1FB8>>, <<\h1FBE, \h1FBE, 1, \h399>>, <<\h1FD0, \h1FD1, 1, \h1FD8>>,
       <<\h1FE0, \h1FE1, 1, \h1FE8>>, <<\h1FE5, \h1FE5, 1, \h1FEC>>, <<\h214E, \h214E, 1, \h2132>>,
       <<\h2170, \h217F, 1, \h2160>>, <<\h2184, \h2184, 1, \h2183>>, <<\h24D0, \h24E9, 1, \h24B6>>,
       <<\h2C30, \h2C5F, 1, \h2C00>>, <<\h2C61, \h2C61, 1, \h2C60>>, <<\h2C65, \h2C65, 1, \h23A>>,
       <<\h2C66, \h2C66, 1, \h23E>>, <<\h2C68, \h2C6C, 2, \h2C67>>, <<\h2C73, \h2C73, 1, \h2C72>>,
       <<\h2C76, \h2C76, 1, \h2C75>>, <<\h2C81, \h2CE3, 2, \h2C80>>, <<\h2CEC, \h2CEE, 2, \h2CEB>>,
       <<\h2CF3, \h2CF3, 1, \h2CF2>>, <<\h2D00, \h2D25, 1, \h10A0>>, <<\h2D27, \h2D27, 1, \h10C7>>,
       <<\h2D2D, \h2D2D, 1, \h10CD>>, <<\hA641, \hA66D, 2, \hA640>>, <<\hA681, \hA69B, 2, \hA680>>,
       <<\hA723, \hA72F, 2, \hA722>>, <<\hA733, \hA76F, 2, \hA732>>, <<\hA77A, \hA77C, 2, \hA779>>,
       <<\hA77F, \hA787, 2, \hA77E>>, <<\hA78C, \hA78C, 1, \hA78B>>, <<\hA791, \hA793, 2, \hA790>>,
       <<\hA794, \hA794, 1, \hA7C4>>, <<\hA797, \hA7A9, 2, \hA796>>, <<\hA7B5, \hA7C3, 2, \hA7B4>>,
       <<\hA7C8, \hA7CA, 2, \hA7C7>>, <<\hA7D1, \hA7D1, 1, \hA7D0>>, <<\hA7D7, \hA7D9, 2, \hA7D6>>,
       <<\hA7F6, \hA7F6, 1, \hA7F5>>, <<\hAB53, \hAB53, 1, \hA7B3>>, <<\hAB70, \hABBF, 1, \h13A0>>,
       <<\hFF41, \hFF5A, 1, \hFF21>>, <<\h10428, \h1044F, 1, \h10400>>, <<\h104D8, \h104FB, 1, \h104B0>>,
       <<\h10597, \h105BB, 2, \h10570>>, <<\h10598, \h105A0, 2, \h10571>>, <<\h105A4, \h105B0, 2, \h1057D>>,
       <<\h105B4, \h105B8, 2, \h1058D>>, <<\h105BC, \h105BC, 1, \h10595>>, <<\h10CC0, \h10CF2, 1, \h10C80>>,
       <<\h118C0, \h118DF, 1, \h118A0>>, <<\h16E60, \h16E7F, 1, \h16E40>>, <<\h1E922, \h1E943, 1, \h1E900>> >>

\* the characters str.upper() maps to several characters
UPPER_SPECIAL ==
    << <<\hDF, <<\h53, \h53>> >>, <<\h149, <<\h2BC, \h4E>> >>, <<\h1F0, <<\h4A, \h30C>> >>,
       <<\h390, <<\h399, \h308, \h301>> >>, <<\h3B0, <<\h3A5, \h308, \h301>> >>, <<\h587, <<\h535, \h552>> >>,
       <<\h1E96, <<\h48, \h331>> >>, <<\h1E97, <<\h54, \h308>> >>, <<\h1E98, <<\h57, \h30A>> >>,
       <<\h1E99, <<\h59, \h30A>> >>, <<\h1E9A, <<\h41, \h2BE>> >>, <<\h1F50, <<\h3A5, \h313>> >>,
       <<\h1F52, <<\h3A5, \h313, \h300>> >>, <<\h1F54, <<\h3A5, \h313, \h301>> >>, <<\h1F56, <<\h3A5, \h313, \h342>> >>,
       <<\h1F80, <<\h1F08, \h399>> >>, <<\h1F81, <<\h1F09, \h399>> >>, <<\h1F82, <<\h1F0A, \h399>> >>,
       <<\h1F83, <<\h1F0B, \h399>> >>, <<\h1F84, <<\h1F0C, \h399>> >>, <<\h1F85, <<\h1F0D, \h399>> >>,
       <<\h1F86, <<\h1F0E, \h399>> >>, <<\h1F87, <<\h1F0F, \h399>> >>, <<\h1F88, <<\h1F08, \h399>> >>,
       <<\h1F89, <<\h1F09, \h399>> >>, <<\h1F8A, <<\h1F0A, \h399>> >>, <<\h1F8B, <<\h1F0B, \h399>> >>,
       <<\h1F8C, <<\h1F0C, \h399>> >>, <<\h1F8D, <<\h1F0D, \h399>> >>, <<\h1F8E, <<\h1F0E, \h399>> >>,
       <<\h1F8F, <<\h1F0F, \h399>> >>, <<\h1F90, <<\h1F28, \h399>> >>, <<\h1F91, <<\h1F29, \h399>> >>,
       <<\h1F92, <<\h1F2A, \h399>> >>, <<\h1F93, <<\h1F2B, \h399>> >>, <<\h1F94, <<\h1F2C, \h399>> >>,
       <<\h1F95, <<\h1F2D, \h399>> >>, <<\h1F96, <<\h1F2E, \h399>> >>, <<\h1F97, <<\h1F2F, \h399>> >>,
       <<\h1F98, <<\h1F28, \h399>> >>, <<\h1F99, <<\h1F29, \h399>> >>, <<\h1F9A, <<\h1F2A, \h399>> >>,
       <<\h1F9B, <<\h1F2B, \h399>> >>, <<\h1F9C, <<\h1F2C, \h399>> >>, <<\h1F9D, <<\h1F2D, \h399>> >>,
       <<\h1F9E, <<\h1F2E, \h399>> >>, <<\h1F9F, <<\h1F2F, \h399>> >>, <<\h1FA0, <<\h1F68, \h399>> >>,
       <<\h1FA1, <<\h1F69, \h399>> >>, <<\h1FA2, <<\h1F6A, \h399>> >>, <<\h1FA3, <<\h1F6B, \h399>> >>,
       <<\h1FA4, <<\h1F6C, \h399>> >>, <<\h1FA5, <<\h1F6D, \h399>> >>, <<\h1FA6, <<\h1F6E, \h399>> >>,
       <<\h1FA7, <<\h1F6F, \h399>> >>, <<\h1FA8, <<\h1F68, \h399>> >>, <<\h1FA9, <<\h1F69, \h399>> >>,
       <<\h1FAA, <<\h1F6A, \h399>> >>, <<\h1FAB, <<\h1F6B, \h399>> >>, <<\h1FAC, <<\h1F6C, \h399>> >>,
       <<\h1FAD, <<\h1F6D, \h399>> >>, <<\h1FAE, <<\h1F6E, \h399>> >>, <<\h1FAF, <<\h1F6F, \h399>> >>,
       <<\h1FB2, <<\h1FBA, \h399>> >>, <<\h1FB3, <<\h391, \h399>> >>, <<\h1FB4, <<\h386, \h399>> >>,
       <<\h1FB6, <<\h391, \h342>> >>, <<\h1FB7, <<\h391, \h342, \h399>> >>, <<\h1FBC, <<\h391, \h399>> >>,
       <<\h1FC2, <<\h1FCA, \h399>> >>, <<\h1FC3, <<\h397, \h399>> >>, <<\h1FC4, <<\h389, \h399>> >>,
       <<\h1FC6, <<\h397, \h342>> >>, <<\h1FC7, <<\h397, \h342, \h399>> >>, <<\h1FCC, <<\h397, \h399>> >>,
       <<\h1FD2, <<\h399, \h308, \h300>> >>, <<\h1FD3, <<\h399, \h308, \h301>> >>, <<\h1FD6, <<\h399, \h342>> >>,
       <<\h1FD7, <<\h399, \h308, \h342>> >>, <<\h1FE2, <<\h3A5, \h308, \h300>> >>, <<\h1FE3, <<\h3A5, \h308, \h301>> >>,
       <<\h1FE4, <<\h3A1, \h313>> >>, <<\h1FE6, <<\h3A5, \h342>> >>, <<\h1FE7, <<\h3A5, \h308, \h342>> >>,
       <<\h1FF2, <<\h1FFA, \h399>> >>, <<\h1FF3, <<\h3A9, \h399>> >>, <<\h1FF4, <<\h38F, \h399>> >>,
       <<\h1FF6, <<\h3A9, \h342>> >>, <<\h1FF7, <<\h3A9, \h342, \h399>> >>, <<\h1FFC, <<\h3A9, \h399>> >>,
       <<\hFB00, <<\h46, \h46>> >>, <<\hFB01, <<\h46, \h49>> >>, <<\hFB02, <<\h46, \h4C>> >>,
       <<\hFB03, <<\h46, \h46, \h49>> >>, <<\hFB04, <<\h46, \h46, \h4C>> >>, <<\hFB05, <<\h53, \h54>> >>,
       <<\hFB06, <<\h53, \h54>> >>, <<\hFB13, <<\h544, \h546>> >>, <<\hFB14, <<\h544, \h535>> >>,
       <<\hFB15, <<\h544, \h53B>> >>, <<\hFB16, <<\h54E, \h546>> >>, <<\hFB17, <<\h544, \h53D>> >> >>

\* the characters str.lower() maps to one other character, capital sigma
\* as it is mapped away from the end of a word
LOWER_RANGES ==
    << <<\h41, \h5A, 1, \h61>>, <<\hC0, \hD6, 1, \hE0>>, <<\hD8, \hDE, 1, \hF8>>,
       <<\h100, \h12E, 2, \h101>>, <<\h132, \h136, 2, \h133>>, <<\h139, \h147, 2, \h13A>>,
       <<\h14A, \h176, 2, \h14B>>, <<\h178, \h178, 1, \hFF>>, <<\h179, \h17D, 2, \h17A>>,
       <<\h181, \h181, 1, \h253>>, <<\h182, \h184, 2, \h183>>, <<\h186, \h186, 1, \h254>>,
       <<\h187, \h187, 1, \h188>>, <<\h189, \h18A, 1, \h256>>, <<\h18B, \h18B, 1, \h18C>>,
       <<\h18E, \h18E, 1, \h1DD>>, <<\h18F, \h18F, 1, \h259>>, <<\h190, \h190, 1, \h25B>>,
       <<\h191, \h191, 1, \h192>>, <<\h193, \h193, 1, \h260>>, <<\h194, \h194, 1, \h263>>,
       <<\h196, \h196, 1, \h269>>, <<\h197, \h197, 1, \h268>>, <<\h198, \h198, 1, \h199>>,
       <<\h19C, \h19C, 1, \h26F>>, <<\h19D, \h19D, 1, \h272>>, <<\h19F, \h19F, 1, \h275>>,
       <<\h1A0, \h1A4, 2, \h1A1>>, <<\h1A6, \h1A6, 1, \h280>>, <<\h1A7, \h1A7, 1, \h1A8>>,
       <<\h1A9, \h1A9, 1, \h283>>, <<\h1AC, \h1AC, 1, \h1AD>>, <<\h1AE, \h1AE, 1, \h288>>,
       <<\h1AF, \h1AF, 1, \h1B0>>, <<\h1B1, \h1B2, 1, \h28A>>, <<\h1B3, \h1B5, 2, \h1B4>>,
       <<\h1B7, \h1B7, 1, \h292>>, <<\h1B8, \h1B8, 1, \h1B9>>, <<\h1BC, \h1BC, 1, \h1BD>>,
       <<\h1C4, \h1C4, 1, \h1C6>>, <<\h1C5, \h1C5, 1, \h1C6>>, <<\h1C7, \h1C7, 1, \h1C9>>,
       <<\h1C8, \h1C8, 1, \h1C9>>, <<\h1CA, \h1CA, 1, \h1CC>>, <<\h1CB, \h1DB, 2, \h1CC>>,
       <<\h1DE, \h1EE, 2, \h1DF>>, <<\h1F1, \h1F1, 1, \h1F3>>, <<\h1F2, \h1F4, 2, \h1F3>>,
       <<\h1F6, \h1F6, 1, \h195>>, <<\h1F7, \h1F7, 1, \h1BF>>, <<\h1F8, \h21E, 2, \h1F9>>,
       <<\h220, \h220, 1, \h19E>>, <<\h222, \h232, 2, \h223>>, <<\h23A, \h23A, 1, \h2C65>>,
       <<\h23B, \h23B, 1, \h23C>>, <<\h23D, \h23D, 1, \h19A>>, <<\h23E, \h23E, 1, \h2C66>>,
       <<\h241, \h241, 1, \h242>>, <<\h243, \h243, 1, \h180>>, <<\h244, \h244, 1, \h289>>,
       <<\h245, \h245, 1, \h28C>>, <<\h246, \h24E, 2, \h247>>, <<\h370, \h372, 2, \h371>>,
       <<\h376, \h376, 1, \h377>>, <<\h37F, \h37F, 1, \h3F3>>, <<\h386, \h386, 1, \h3AC>>,
       <<\h388, \h38A, 1, \h3AD>>, <<\h38C, \h38C, 1, \h3CC>>, <<\h38E, \h38F, 1, \h3CD>>,
       <<\h391, \h3A1, 1, \h3B1>>, <<\h3A3, \h3AB, 1, \h3C3>>, <<\h3CF, \h3CF, 1, \h3D7>>,
       <<\h3D8, \h3EE, 2, \h3D9>>, <<\h3F4, \h3F4, 1, \h3B8>>, <<\h3F7, \h3F7, 1, \h3F8>>,
       <<\h3F9, \h3F9, 1, \h3F2>>, <<\h3FA, \h3FA, 1, \h3FB>>, <<\h3FD, \h3FF, 1, \h37B>>,
       <<\h400, \h40F, 1, \h450>>, <<\h410, \h42F, 1, \h430>>, <<\h460, \h480, 2, \h461>>,
       <<\h48A, \h4BE, 2, \h48B>>, <<\h4C0, \h4C0, 1, \h4CF>>, <<\h4C1, \h4CD, 2, \h4C2>>,
       <<\h4D0, \h52E, 2, \h4D1>>, <<\h531, \h556, 1, \h561>>, <<\h10A0, \h10C5, 1, \h2D00>>,
       <<\h10C7, \h10C7, 1, \h2D27>>, <<\h10CD, \h10CD, 1, \h2D2D>>, <<\h13A0, \h13EF, 1, \hAB70>>,
       <<\h13F0, \h13F5, 1, \h13F8>>, <<\h1C90, \h1CBA, 1, \h10D0>>, <<\h1CBD, \h1CBF, 1, \h10FD>>,
       <<\h1E00, \h1E94, 2, \h1E01>>, <<\h1E9E, \h1E9E, 1, \hDF>>, <<\h1EA0, \h1EFE, 2, \h1EA1>>,
       <<\h1F08, \h1F0F, 1, \h1F00>>, <<\h1F18, \h1F1D, 1, \h1F10>>, <<\h1F28, \h1F2F, 1, \h1F20>>,
       <<\h1F38, \h1F3F, 1, \h1F30>>, <<\h1F48, \h1F4D, 1, \h1F40>>, <<\h1F59, \h1F5F, 2, \h1F51>>,
       <<\h1F68, \h1F6F, 1, \h1F60>>, <<\h1F88, \h1F8F, 1, \h1F80>>, <<\h1F98, \h1F9F, 1, \h1F90>>,
       <<\h1FA8, \h1FAF, 1, \h1FA0>>, <<\h1FB8, \h1FB9, 1, \h1FB0>>, <<\h1FBA, \h1FBB, 1, \h1F70>>,
       <<\h1FBC, \h1FBC, 1, \h1FB3>>, <<\h1FC8, \h1FCB, 1, \h1F72>>, <<\h1FCC, \h1FCC, 1, \h1FC3>>,
       <<\h1FD8, \h1FD9, 1, \h1FD0>>, <<\h1FDA, \h1FDB, 1, \h1F76>>, <<\h1FE8, \h1FE9, 1, \h1FE0>>,
       <<\h1FEA, \h1FEB, 1, \h1F7A>>, <<\h1FEC, \h1FEC, 1, \h1FE5>>, <<\h1FF8, \h1FF9, 1, \h1F78>>,
       <<\h1FFA, \h1FFB, 1, \h1F7C>>, <<\h1FFC, \h1FFC, 1, \h1FF3>>, <<\h2126, \h2126, 1, \h3C9>>,
       <<\h212A, \h212A, 1, \h6B>>, <<\h212B, \h212B, 1, \hE5>>, <<\h2132, \h2132, 1, \h214E>>,
       <<\h2160, \h216F, 1, \h2170>>, <<\h2183, \h2183, 1, \h2184>>, <<\h24B6, \h24CF, 1, \h24D0>>,
       <<\h2C00, \h2C2F, 1, \h2C30>>, <<\h2C60, \h2C60, 1, \h2C61>>, <<\h2C62, \h2C62, 1, \h26B>>,
       <<\h2C63, \h2C63, 1, \h1D7D>>, <<\h2C64, \h2C64, 1, \h27D>>, <<\h2C67, \h2C6B, 2, \h2C68>>,
       <<\h2C6D, \h2C6D, 1, \h251>>, <<\h2C6E, \h2C6E, 1, \h271>>, <<\h2C6F, \h2C6F, 1, \h250>>,
       <<\h2C70, \h2C70, 1, \h252>>, <<\h2C72, \h2C72, 1, \h2C73>>, <<\h2C75, \h2C75, 1, \h2C76>>,
       <<\h2C7E, \h2C7F, 1, \h23F>>, <<\h2C80, \h2CE2, 2, \h2C81>>, <<\h2CEB, \h2CED, 2, \h2CEC>>,
       <<\h2CF2, \h2CF2, 1, \h2CF3>>, <<\hA640, \hA66C, 2, \hA641>>, <<\hA680, \hA69A, 2, \hA681>>,
       <<\hA722, \hA72E, 2, \hA723>>, <<\hA732, \hA76E, 2, \hA733>>, <<\hA779, \hA77B, 2, \hA77A>>,
       <<\hA77D, \hA77D, 1, \h1D79>>, <<\hA77E, \hA786, 2, \hA77F>>, <<\hA78B, \hA78B, 1, \hA78C>>,
       <<\hA78D, \hA78D, 1, \h265>>, <<\hA790, \hA792, 2, \hA791>>, <<\hA796, \hA7A8, 2, \hA797>>,
       <<\hA7AA, \hA7AA, 1, \h266>>, <<\hA7AB, \hA7AB, 1, \h25C>>, <<\hA7AC, \hA7AC, 1, \h261>>,
       <<\hA7AD, \hA7AD, 1, \h26C>>, <<\hA7AE, \hA7AE, 1, \h26A>>, <<\hA7B0, \hA7B0, 1, \h29E>>,
       <<\hA7B1, \hA7B1, 1, \h287>>, <<\hA7B2, \hA7B2, 1, \h29D>>, <<\hA7B3, \hA7B3, 1, \hAB53>>,
       <<\hA7B4, \hA7C2, 2, \hA7B5>>, <<\hA7C4, \hA7C4, 1, \hA794>>, <<\hA7C5, \hA7C5, 1, \h282>>,
       <<\hA7C6, \hA7C6, 1, \h1D8E>>, <<\hA7C7, \hA7C9, 2, \hA7C8>>, <<\hA7D0, \hA7D0, 1, \hA7D1>>,
       <<\hA7D6, \hA7D8, 2, \hA7D7>>, <<\hA7F5, \hA7F5, 1, \hA7F6>>, <<\hFF21, \hFF3A, 1, \hFF41>>,
       <<\h10400, \h10427, 1, \h10428>>, <<\h104B0, \h104D3, 1, \h104D8>>, <<\h10570, \h10594, 2, \h10597>>,
       <<\h10571, \h10579, 2, \h10598>>, <<\h1057D, \h10589, 2, \h105A4>>, <<\h1058D, \h10591, 2, \h105B4>>,
       <<\h10595, \h10595, 1, \h105BC>>, <<\h10C80, \h10CB2, 1, \h10CC0>>, <<\h118A0, \h118BF, 1, \h118C0>>,
       <<\h16E40, \h16E5F, 1, \h16E60>>, <<\h1E900, \h1E921, 1, \h1E922>> >>

\* the character str.lower() maps to several characters
LOWER_SPECIAL ==
    << <<\h130, <<\h69, \h307>> >> >>

\* the characters the rule of the final sigma skips, as <<first, last>>
CASE_IGNORABLE_RANGES ==
    << <<\h27, \h27>>, <<\h2E, \h2E>>, <<\h3A, \h3A>>, <<\h5E, \h5E>>, <<\h60, \h60>>,
       <<\hA8, \hA8>>, <<\hAD, \hAD>>, <<\hAF, \hAF>>, <<\hB4, \hB4>>, <<\hB7, \hB8>>,
       <<\h2B0, \h36F>>, <<\h374, \h375>>, <<\h37A, \h37A>>, <<\h384, \h385>>, <<\h387, \h387>>,
       <<\h483, \h489>>, <<\h559, \h559>>, <<\h55F, \h55F>>, <<\h591, \h5BD>>, <<\h5BF, \h5BF>>,
       <<\h5C1, \h5C2>>, <<\h5C4, \h5C5>>, <<\h5C7, \h5C7>>, <<\h5F4, \h5F4>>, <<\h600, \h605>>,
       <<\h610, \h61A>>, <<\h61C, \h61C>>, <<\h640, \h640>>, <<\h64B, \h65F>>, <<\h670, \h670>>,
       <<\h6D6, \h6DD>>, <<\h6DF, \h6E8>>, <<\h6EA, \h6ED>>, <<\h70F, \h70F>>, <<\h711, \h711>>,
       <<\h730, \h74A>>, <<\h7A6, \h7B0>>, <<\h7EB, \h7F5>>, <<\h7FA, \h7FA>>, <<\h7FD, \h7FD>>,
       <<\h816, \h82D>>, <<\h859, \h85B>>, <<\h888, \h888>>, <<\h890, \h891>>, <<\h898, \h89F>>,
       <<\h8C9, \h902>>, <<\h93A, \h93A>>, <<\h93C, \h93C>>, <<\h941, \h948>>, <<\h94D, \h94D>>,
       <<\h951, \h957>>, <<\h962, \h963>>, <<\h971, \h971>>, <<\h981, \h981>>, <<\h9BC, \h9BC>>,
       <<\h9C1, \h9C4>>, <<\h9CD, \h9CD>>, <<\h9E2, \h9E3>>, <<\h9FE, \h9FE>>, <<\hA01, \hA02>>,
       <<\hA3C, \hA3C>>, <<\hA41, \hA42>>, <<\hA47, \hA48>>, <<\hA4B, \hA4D>>, <<\hA51, \hA51>>,
       <<\hA70, \hA71>>, <<\hA75, \hA75>>, <<\hA81, \hA82>>, <<\hABC, \hABC>>, <<\hAC1, \hAC5>>,
       <<\hAC7, \hAC8>>, <<\hACD, \hACD>>, <<\hAE2, \hAE3>>, <<\hAFA, \hAFF>>, <<\hB01, \hB01>>,
       <<\hB3C, \hB3C>>, <<\hB3F, \hB3F>>, <<\hB41, \hB44>>, <<\hB4D, \hB4D>>, <<\hB55, \hB56>>,
       <<\hB62, \hB63>>, <<\hB82, \hB82>>, <<\hBC0, \hBC0>>, <<\hBCD, \hBCD>>, <<\hC00, \hC00>>,
       <<\hC04, \hC04>>, <<\hC3C, \hC3C>>, <<\hC3E, \hC40>>, <<\hC46, \hC48>>, <<\hC4A, \hC4D>>,
       <<\hC55, \hC56>>, <<\hC62, \hC63>>, <<\hC81, \hC81>>, <<\hCBC, \hCBC>>, <<\hCBF, \hCBF>>,
       <<\hCC6, \hCC6>>, <<\hCCC, \hCCD>>, <<\hCE2, \hCE3>>, <<\hD00, \hD01>>, <<\hD3B, \hD3C>>,
       <<\hD41, \hD44>>, <<\hD4D, \hD4D>>, <<\hD62, \hD63>>, <<\hD81, \hD81>>, <<\hDCA, \hDCA>>,
       <<\hDD2, \hDD4>>, <<\hDD6, \hDD6>>, <<\hE31, \hE31>>, <<\hE34, \hE3A>>, <<\hE46, \hE4E>>,
       <<\hEB1, \hEB1>>, <<\hEB4, \hEBC>>, <<\hEC6, \hEC6>>, <<\hEC8, \hECD>>, <<\hF18, \hF19>>,
       <<\hF35, \hF35>>, <<\hF37, \hF37>>, <<\hF39, \hF39>>, <<\hF71, \hF7E>>, <<\hF80, \hF84>>,
       <<\hF86, \hF87>>, <<\hF8D, \hF97>>, <<\hF99, \hFBC>>, <<\hFC6, \hFC6>>, <<\h102D, \h1030>>,
       <<\h1032, \h1037>>, <<\h1039, \h103A>>, <<\h103D, \h103E>>, <<\h1058, \h1059>>, <<\h105E, \h1060>>,
       <<\h1071, \h1074>>, <<\h1082, \h1082>>, <<\h1085, \h1086>>, <<\h108D, \h108D>>, <<\h109D, \h109D>>,
       <<\h10FC, \h10FC>>, <<\h135D, \h135F>>, <<\h1712, \h1714>>, <<\h1732, \h1733>>, <<\h1752, \h1753>>,
       <<\h1772, \h1773>>, <<\h17B4, \h17B5>>, <<\h17B7, \h17BD>>, <<\h17C6, \h17C6>>, <<\h17C9, \h17D3>>,
       <<\h17D7, \h17D7>>, <<\h17DD, \h17DD>>, <<\h180B, \h180F>>, <<\h1843, \h1843>>, <<\h1885, \h1886>>,
       <<\h18A9, \h18A9>>, <<\h1920, \h1922>>, <<\h1927, \h1928>>, <<\h1932, \h1932>>, <<\h1939, \h193B>>,
       <<\h1A17, \h1A18>>, <<\h1A1B, \h1A1B>>, <<\h1A56, \h1A56>>, <<\h1A58, \h1A5E>>, <<\h1A60, \h1A60>>,
       <<\h1A62, \h1A62>>, <<\h1A65, \h1A6C>>, <<\h1A73, \h1A7C>>, <<\h1A7F, \h1A7F>>, <<\h1AA7, \h1AA7>>,
       <<\h1AB0, \h1ACE>>, <<\h1B00, \h1B03>>, <<\h1B34, \h1B34>>, <<\h1B36, \h1B3A>>, <<\h1B3C, \h1B3C>>,
       <<\h1B42, \h1B42>>, <<\h1B6B, \h1B73>>, <<\h1B80, \h1B81>>, <<\h1BA2, \h1BA5>>, <<\h1BA8, \h1BA9>>,
       <<\h1BAB, \h1BAD>>, <<\h1BE6, \h1BE6>>, <<\h1BE8, \h1BE9>>, <<\h1BED, \h1BED>>, <<\h1BEF, \h1BF1>>,
       <<\h1C2C, \h1C33>>, <<\h1C36, \h1C37>>, <<\h1C78, \h1C7D>>, <<\h1CD0, \h1CD2>>, <<\h1CD4, \h1CE0>>,
       <<\h1CE2, \h1CE8>>, <<\h1CED, \h1CED>>, <<\h1CF4, \h1CF4>>, <<\h1CF8, \h1CF9>>, <<\h1D2C, \h1D6A>>,
       <<\h1D78, \h1D78>>, <<\h1D9B, \h1DFF>>, <<\h1FBD, \h1FBD>>, <<\h1FBF, \h1FC1>>, <<\h1FCD, \h1FCF>>,
       <<\h1FDD, \h1FDF>>, <<\h1FED, \h1FEF>>, <<\h1FFD, \h1FFE>>, <<\h200B, \h200F>>, <<\h2018, \h2019>>,
       <<\h2024, \h2024>>, <<\h2027, \h2027>>, <<\h202A, \h202E>>, <<\h2060, \h2064>>, <<\h2066, \h206F>>,
       <<\h2071, \h2071>>, <<\h207F, \h207F>>, <<\h2090, \h209C>>, <<\h20D0, \h20F0>>, <<\h2C7C, \h2C7D>>,
       <<\h2CEF, \h2CF1>>, <<\h2D6F, \h2D6F>>, <<\h2D7F, \h2D7F>>, <<\h2DE0, \h2DFF>>, <<\h2E2F, \h2E2F>>,
       <<\h3005, \h3005>>, <<\h302A, \h302D>>, <<\h3031, \h3035>>, <<\h303B, \h303B>>, <<\h3099, \h309E>>,
       <<\h30FC, \h30FE>>, <<\hA015, \hA015>>, <<\hA4F8, \hA4FD>>, <<\hA60C, \hA60C>>, <<\hA66F, \hA672>>,
       <<\hA674, \hA67D>>, <<\hA67F, \hA67F>>, <<\hA69C, \hA69F>>, <<\hA6F0, \hA6F1>>, <<\hA700, \hA721>>,
       <<\hA770, \hA770>>, <<\hA788, \hA78A>>, <<\hA7F2, \hA7F4>>, <<\hA7F8, \hA7F9>>, <<\hA802, \hA802>>,
       <<\hA806, \hA806>>, <<\hA80B, \hA80B>>, <<\hA825, \hA826>>, <<\hA82C, \hA82C>>, <<\hA8C4, \hA8C5>>,
       <<\hA8E0, \hA8F1>>, <<\hA8FF, \hA8FF>>, <<\hA926, \hA92D>>, <<\hA947, \hA951>>, <<\hA980, \hA982>>,
       <<\hA9B3, \hA9B3>>, <<\hA9B6, \hA9B9>>, <<\hA9BC, \hA9BD>>, <<\hA9CF, \hA9CF>>, <<\hA9E5, \hA9E6>>,
       <<\hAA29, \hAA2E>>, <<\hAA31, \hAA32>>, <<\hAA35, \hAA36>>, <<\hAA43, \hAA43>>, <<\hAA4C, \hAA4C>>,
       <<\hAA70, \hAA70>>, <<\hAA7C, \hAA7C>>, <<\hAAB0, \hAAB0>>, <<\hAAB2, \hAAB4>>, <<\hAAB7, \hAAB8>>,
       <<\hAABE, \hAABF>>, <<\hAAC1, \hAAC1>>, <<\hAADD, \hAADD>>, <<\hAAEC, \hAAED>>, <<\hAAF3, \hAAF4>>,
       <<\hAAF6, \hAAF6>>, <<\hAB5B, \hAB5F>>, <<\hAB69, \hAB6B>>, <<\hABE5, \hABE5>>, <<\hABE8, \hABE8>>,
       <<\hABED, \hABED>>, <<\hFB1E, \hFB1E>>, <<\hFBB2, \hFBC2>>, <<\hFE00, \hFE0F>>, <<\hFE13, \hFE13>>,
       <<\hFE20, \hFE2F>>, <<\hFE52, \hFE52>>, <<\hFE55, \hFE55>>, <<\hFEFF, \hFEFF>>, <<\hFF07, \hFF07>>,
       <<\hFF0E, \hFF0E>>, <<\hFF1A, \hFF1A>>, <<\hFF3E, \hFF3E>>, <<\hFF40, \hFF40>>, <<\hFF70, \hFF70>>,
       <<\hFF9E, \hFF9F>>, <<\hFFE3, \hFFE3>>, <<\hFFF9, \hFFFB>>, <<\h101FD, \h101FD>>, <<\h102E0, \h102E0>>,
       <<\h10376, \h1037A>>, <<\h10780, \h10785>>, <<\h10787, \h107B0>>, <<\h107B2, \h107BA>>, <<\h10A01, \h10A03>>,
       <<\h10A05, \h10A06>>, <<\h10A0C, \h10A0F>>, <<\h10A38, \h10A3A>>, <<\h10A3F, \h10A3F>>, <<\h10AE5, \h10AE6>>,
       <<\h10D24, \h10D27>>, <<\h10EAB, \h10EAC>>, <<\h10F46, \h10F50>>, <<\h10F82, \h10F85>>, <<\h11001, \h11001>>,
       <<\h11038, \h11046>>, <<\h11070, \h11070>>, <<\h11073, \h11074>>, <<\h1107F, \h11081>>, <<\h110B3, \h110B6>>,
       <<\h110B9, \h110BA>>, <<\h110BD, \h110BD>>, <<\h110C2, \h110C2>>, <<\h110CD, \h110CD>>, <<\h11100, \h11102>>,
       <<\h11127, \h1112B>>, <<\h1112D, \h11134>>, <<\h11173, \h11173>>, <<\h11180, \h11181>>, <<\h111B6, \h111BE>>,
       <<\h111C9, \h111CC>>, <<\h111CF, \h111CF>>, <<\h1122F, \h11231>>, <<\h11234, \h11234>>, <<\h11236, \h11237>>,
       <<\h1123E, \h1123E>>, <<\h112DF, \h112DF>>, <<\h112E3, \h112EA>>, <<\h11300, \h11301>>, <<\h1133B, \h1133C>>,
       <<\h11340, \h11340>>, <<\h11366, \h1136C>>, <<\h11370, \h11374>>, <<\h11438, \h1143F>>, <<\h11442, \h11444>>,
       <<\h11446, \h11446>>, <<\h1145E, \h1145E>>, <<\h114B3, \h114B8>>, <<\h114BA, \h114BA>>, <<\h114BF, \h114C0>>,
       <<\h114C2, \h114C3>>, <<\h115B2, \h115B5>>, <<\h115BC, \h115BD>>, <<\h115BF, \h115C0>>, <<\h115DC, \h115DD>>,
       <<\h11633, \h1163A>>, <<\h1163D, \h1163D>>, <<\h1163F, \h11640>>, <<\h116AB, \h116AB>>, <<\h116AD, \h116AD>>,
       <<\h116B0, \h116B5>>, <<\h116B7, \h116B7>>, <<\h1171D, \h1171F>>, <<\h11722, \h11725>>, <<\h11727, \h1172B>>,
       <<\h1182F, \h11837>>, <<\h11839, \h1183A>>, <<\h1193B, \h1193C>>, <<\h1193E, \h1193E>>, <<\h11943, \h11943>>,
       <<\h119D4, \h119D7>>, <<\h119DA, \h119DB>>, <<\h119E0, \h119E0>>, <<\h11A01, \h11A0A>>, <<\h11A33, \h11A38>>,
       <<\h11A3B, \h11A3E>>, <<\h11A47, \h11A47>>, <<\h11A51, \h11A56>>, <<\h11A59, \h11A5B>>, <<\h11A8A, \h11A96>>,
       <<\h11A98, \h11A99>>, <<\h11C30, \h11C36>>, <<\h11C38, \h11C3D>>, <<\h11C3F, \h11C3F>>, <<\h11C92, \h11CA7>>,
       <<\h11CAA, \h11CB0>>, <<\h11CB2, \h11CB3>>, <<\h11CB5, \h11CB6>>, <<\h11D31, \h11D36>>, <<\h11D3A, \h11D3A>>,
       <<\h11D3C, \h11D3D>>, <<\h11D3F, \h11D45>>, <<\h11D47, \h11D47>>, <<\h11D90, \h11D91>>, <<\h11D95, \h11D95>>,
       <<\h11D97, \h11D97>>, <<\h11EF3, \h11EF4>>, <<\h13430, \h13438>>, <<\h16AF0, \h16AF4>>, <<\h16B30, \h16B36>>,
       <<\h16B40, \h16B43>>, <<\h16F4F, \h16F4F>>, <<\h16F8F, \h16F9F>>, <<\h16FE0, \h16FE1>>, <<\h16FE3, \h16FE4>>,
       <<\h1AFF0, \h1AFF3>>, <<\h1AFF5, \h1AFFB>>, <<\h1AFFD, \h1AFFE>>, <<\h1BC9D, \h1BC9E>>, <<\h1BCA0, \h1BCA3>>,
       <<\h1CF00, \h1CF2D>>, <<\h1CF30, \h1CF46>>, <<\h1D167, \h1D169>>, <<\h1D173, \h1D182>>, <<\h1D185, \h1D18B>>,
       <<\h1D1AA, \h1D1AD>>, <<\h1D242, \h1D244>>, <<\h1DA00, \h1DA36>>, <<\h1DA3B, \h1DA6C>>, <<\h1DA75, \h1DA75>>,
       <<\h1DA84, \h1DA84>>, <<\h1DA9B, \h1DA9F>>, <<\h1DAA1, \h1DAAF>>, <<\h1E000, \h1E006>>, <<\h1E008, \h1E018>>,
       <<\h1E01B, \h1E021>>, <<\h1E023, \h1E024>>, <<\h1E026, \h1E02A>>, <<\h1E130, \h1E13D>>, <<\h1E2AE, \h1E2AE>>,
       <<\h1E2EC, \h1E2EF>>, <<\h1E8D0, \h1E8D6>>, <<\h1E944, \h1E94B>>, <<\h1F3FB, \h1F3FF>>, <<\hE0001, \hE0001>>,
       <<\hE0020, \hE007F>>, <<\hE0100, \hE01EF>> >>

\* the cased characters that rule does not skip, as <<first, last>>
CASED_RANGES ==
    << <<\h41, \h5A>>, <<\h61, \h7A>>, <<\hAA, \hAA>>, <<\hB5, \hB5>>, <<\hBA, \hBA>>,
       <<\hC0, \hD6>>, <<\hD8, \hF6>>, <<\hF8, \h1BA>>, <<\h1BC, \h1BF>>, <<\h1C4, \h293>>,
       <<\h295, \h2AF>>, <<\h370, \h373>>, <<\h376, \h377>>, <<\h37B, \h37D>>, <<\h37F, \h37F>>,
       <<\h386, \h386>>, <<\h388, \h38A>>, <<\h38C, \h38C>>, <<\h38E, \h3A1>>, <<\h3A3, \h3F5>>,
       <<\h3F7, \h481>>, <<\h48A, \h52F>>, <<\h531, \h556>>, <<\h560, \h588>>, <<\h10A0, \h10C5>>,
       <<\h10C7, \h10C7>>, <<\h10CD, \h10CD>>, <<\h10D0, \h10FA>>, <<\h10FD, \h10FF>>, <<\h13A0, \h13F5>>,
       <<\h13F8, \h13FD>>, <<\h1C80, \h1C88>>, <<\h1C90, \h1CBA>>, <<\h1CBD, \h1CBF>>, <<\h1D00, \h1D2B>>,
       <<\h1D6B, \h1D77>>, <<\h1D79, \h1D9A>>, <<\h1E00, \h1F15>>, <<\h1F18, \h1F1D>>, <<\h1F20, \h1F45>>,
       <<\h1F48, \h1F4D>>, <<\h1F50, \h1F57>>, <<\h1F59, \h1F59>>, <<\h1F5B, \h1F5B>>, <<\h1F5D, \h1F5D>>,
       <<\h1F5F, \h1F7D>>, <<\h1F80, \h1FB4>>, <<\h1FB6, \h1FBC>>, <<\h1FBE, \h1FBE>>, <<\h1FC2, \h1FC4>>,
       <<\h1FC6, \h1FCC>>, <<\h1FD0, \h1FD3>>, <<\h1FD6, \h1FDB>>, <<\h1FE0, \h1FEC>>, <<\h1FF2, \h1FF4>>,
       <<\h1FF6, \h1FFC>>, <<\h2102, \h2102>>, <<\h2107, \h2107>>, <<\h210A, \h2113>>, <<\h2115, \h2115>>,
       <<\h2119, \h211D>>, <<\h2124, \h2124>>, <<\h2126, \h2126>>, <<\h2128, \h2128>>, <<\h212A, \h212D>>,
       <<\h212F, \h2134>>, <<\h2139, \h2139>>, <<\h213C, \h213F>>, <<\h2145, \h2149>>, <<\h214E, \h214E>>,
       <<\h2160, \h217F>>, <<\h2183, \h2184>>, <<\h24B6, \h24E9>>, <<\h2C00, \h2C7B>>, <<\h2C7E, \h2CE4>>,
       <<\h2CEB, \h2CEE>>, <<\h2CF2, \h2CF3>>, <<\h2D00, \h2D25>>, <<\h2D27, \h2D27>>, <<\h2D2D, \h2D2D>>,
       <<\hA640, \hA66D>>, <<\hA680, \hA69B>>, <<\hA722, \hA76F>>, <<\hA771, \hA787>>, <<\hA78B, \hA78E>>,
       <<\hA790, \hA7CA>>, <<\hA7D0, \hA7D1>>, <<\hA7D3, \hA7D3>>, <<\hA7D5, \hA7D9>>, <<\hA7F5, \hA7F6>>,
       <<\hA7FA, \hA7FA>>, <<\hAB30, \hAB5A>>, <<\hAB60, \hAB68>>, <<\hAB70, \hABBF>>, <<\hFB00, \hFB06>>,
       <<\hFB13, \hFB17>>, <<\hFF21, \hFF3A>>, <<\hFF41, \hFF5A>>, <<\h10400, \h1044F>>, <<\h104B0, \h104D3>>,
       <<\h104D8, \h104FB>>, <<\h10570, \h1057A>>, <<\h1057C, \h1058A>>, <<\h1058C, \h10592>>, <<\h10594, \h10595>>,
       <<\h10597, \h105A1>>, <<\h105A3, \h105B1>>, <<\h105B3, \h105B9>>, <<\h105BB, \h105BC>>, <<\h10C80, \h10CB2>>,
       <<\h10CC0, \h10CF2>>, <<\h118A0, \h118DF>>, <<\h16E40, \h16E7F>>, <<\h1D400, \h1D454>>, <<\h1D456, \h1D49C>>,
       <<\h1D49E, \h1D49F>>, <<\h1D4A2, \h1D4A2>>, <<\h1D4A5, \h1D4A6>>, <<\h1D4A9, \h1D4AC>>, <<\h1D4AE, \h1D4B9>>,
       <<\h1D4BB, \h1D4BB>>, <<\h1D4BD, \h1D4C3>>, <<\h1D4C5, \h1D505>>, <<\h1D507, \h1D50A>>, <<\h1D50D, \h1D514>>,
       <<\h1D516, \h1D51C>>, <<\h1D51E, \h1D539>>, <<\h1D53B, \h1D53E>>, <<\h1D540, \h1D544>>, <<\h1D546, \h1D546>>,
       <<\h1D54A, \h1D550>>, <<\h1D552, \h1D6A5>>, <<\h1D6A8, \h1D6C0>>, <<\h1D6C2, \h1D6DA>>, <<\h1D6DC, \h1D6FA>>,
       <<\h1D6FC, \h1D714>>, <<\h1D716, \h1D734>>, <<\h1D736, \h1D74E>>, <<\h1D750, \h1D76E>>, <<\h1D770, \h1D788>>,
       <<\h1D78A, \h1D7A8>>, <<\h1D7AA, \h1D7C2>>, <<\h1D7C4, \h1D7CB>>, <<\h1DF00, \h1DF09>>, <<\h1DF0B, \h1DF1E>>,
       <<\h1E900, \h1E943>>, <<\h1F130, \h1F149>>, <<\h1F150, \h1F169>>, <<\h1F170, \h1F189>> >>

in_rule(n, rule) == rule[1] <= n /\ n <= rule[2] /\ (n - rule[1]) % rule[3] = 0
in_ranges(n, ranges) == \E i \in 1..Len(ranges) : ranges[i][1] <= n /\ n <= ranges[i][2]

\* the case mapping of the character of code point n by the tables of one
\* direction: the characters it becomes, itself when the tables leave it out
case_mapping(n, ranges, special) ==
    IF \E i \in 1..Len(special) : special[i][1] = n
    THEN LET to == special[CHOOSE i \in 1..Len(special) : special[i][1] = n][2]
         IN  [k \in 1..Len(to) |-> chr(to[k])]
    ELSE IF \E i \in 1..Len(ranges) : in_rule(n, ranges[i])
    THEN LET rule == ranges[CHOOSE i \in 1..Len(ranges) : in_rule(n, ranges[i])]
         IN  <<chr(n + rule[4] - rule[1])>>
    ELSE <<chr(n)>>

\* str.upper() of one character: a text, of several characters for some
upper_char(c) ==
    IF c \in ASCII_SET THEN <<ASCII_UPPER[c]>>
    ELSE IF ord(c) < 0 THEN <<c>>
    ELSE case_mapping(ord(c), UPPER_RANGES, UPPER_SPECIAL)

\* str.lower() of one character standing alone
lower_char(c) ==
    IF c \in ASCII_SET THEN <<ASCII_LOWER[c]>>
    ELSE IF ord(c) < 0 THEN <<c>>
    ELSE case_mapping(ord(c), LOWER_RANGES, LOWER_SPECIAL)

RECURSIVE upper_from(_, _)
upper_from(s, i) == IF i > Len(s) THEN <<>> ELSE upper_char(s[i]) \o upper_from(s, i + 1)

\* str.upper(): a text of ASCII keeps its length, as in the interpreter
upper(s) ==
    IF isascii(s) THEN [i \in 1..Len(s) |-> ASCII_UPPER[s[i]]] ELSE upper_from(s, 1)

CAPITAL_SIGMA == "<U+03A3>"
FINAL_SIGMA == "<U+03C2>"

\* whether the capital sigma at s[i] ends a word: the nearest character
\* before it that the rule does not skip is cased, and the nearest one after
\* it, if there is one, is not
final_sigma(s, i) ==
    LET kept(js) == {j \in js : ~in_ranges(ord(s[j]), CASE_IGNORABLE_RANGES)}
        before == kept(1..(i - 1))
        after == kept((i + 1)..Len(s))
        last(js) == CHOOSE j \in js : \A k \in js : k <= j
        first(js) == CHOOSE j \in js : \A k \in js : j <= k
    IN  /\ before # {}
        /\ in_ranges(ord(s[last(before)]), CASED_RANGES)
        /\ after = {} \/ ~in_ranges(ord(s[first(after)]), CASED_RANGES)

\* str.lower(): character by character, but for a capital sigma at the end of
\* a word
RECURSIVE lower_from(_, _)
lower_from(s, i) ==
    IF i > Len(s) THEN <<>>
    ELSE (IF s[i] = CAPITAL_SIGMA /\ final_sigma(s, i) THEN <<FINAL_SIGMA>> ELSE lower_char(s[i]))
         \o lower_from(s, i + 1)

lower(s) ==
    IF isascii(s) THEN [i \in 1..Len(s) |-> ASCII_LOWER[s[i]]] ELSE lower_from(s, 1)

\* len(c.encode("utf-8")) of one character: 1 byte up to U+007F, 2 up to
\* U+07FF, 3 up to U+FFFF, 4 beyond
utf8_len(c) ==
    LET n == ord(c)
    IN  IF c \in ASCII_SET THEN 1
        ELSE IF n < 0 THEN Len(c)
        ELSE IF n < \h80 THEN 1
        ELSE IF n < \h800 THEN 2
        ELSE IF n < \h10000 THEN 3
        ELSE 4

\* len(s.encode("utf-8"))
RECURSIVE encoded_len(_)
encoded_len(s) == IF s = <<>> THEN 0 ELSE utf8_len(Head(s)) + encoded_len(Tail(s))

\* str(n) for n >= 0, one character per digit
RECURSIVE digits(_)
digits(n) == IF n < 10 THEN <<ToString(n)>> ELSE digits(n \div 10) \o <<ToString(n % 10)>>

(***************************************************************************)
(* Search hits.  A hit is a function from field names to Python values; a  *)
(* field the service did not return is absent from its domain, a null      *)
(* field is PyNone.  The relevance score is the float nearest to a number  *)
(* of thousandths (1234 is 1.234).                                         *)
(***************************************************************************)
SCORE == "@search.score"

\* dict.get(key, default)
get(result, key, default) == IF key \in DOMAIN result THEN result[key] ELSE default

\* result.get("@search.score") or 0.0, in thousandths
score_or_zero(result) ==
    LET s == get(result, SCORE, PyNone)
    IN  IF s.t = "float" /\ s.v # 0 THEN s.v ELSE 0

\* 2^e modulo 1000
RECURSIVE pow2mod(_)
pow2mod(e) == IF e = 0 THEN 1 ELSE (2 * pow2mod(e - 1)) % 1000

\* the whole part of log2(num / den), for num > 0
RECURSIVE floor_log2(_, _)
floor_log2(num, den) ==
    IF num >= 2 * den THEN 1 + floor_log2(num, 2 * den)
    ELSE IF num < den THEN floor_log2(2 * num, den) - 1
    ELSE 0

\* what the division of n / 1000 to a float of 53 bits leaves over, in
\* thousandths of the last bit: 0 when the float is n / 1000 exactly, under
\* 500 when the float lies below n / 1000, over 500 when it lies above
float_remainder(n) ==
    IF n = 0 THEN 0 ELSE ((n % 1000) * pow2mod(52 - floor_log2(n, 1000))) % 1000

\* f"{score:.2f}" of the float nearest to n thousandths: the float is rounded,
\* not the thousandths, so a score written with a final 5 goes the way of the
\* float (2.675 is 2.67, 0.035 is 0.04) and an exact half goes to the even
\* hundredth (0.125 is 0.12, 0.375 is 0.38)
fmt2f(n) ==
    LET q == n \div 10
        r == float_remainder(n)
        h == IF n % 10 # 5 THEN (n + 5) \div 10
             ELSE IF r = 0 THEN (IF q % 2 = 0 THEN q ELSE q + 1)
             ELSE IF r < 500 THEN q
             ELSE q + 1
    IN  <<ToString(h \div 100), ".", ToString((h % 100) \div 10), ToString(h % 10)>>

\* the characters str.isprintable() does not hold for, by their code points:
\* repr() writes them as escapes
NOT_PRINTABLE_RANGES ==
    << <<\h0, \h1F>>, <<\h7F, \hA0>>, <<\hAD, \hAD>>, <<\h378, \h379>>, <<\h380, \h383>>,
       <<\h38B, \h38B>>, <<\h38D, \h38D>>, <<\h3A2, \h3A2>>, <<\h530, \h530>>, <<\h557, \h558>>,
       <<\h58B, \h58C>>, <<\h590, \h590>>, <<\h5C8, \h5CF>>, <<\h5EB, \h5EE>>, <<\h5F5, \h605>>,
       <<\h61C, \h61C>>, <<\h6DD, \h6DD>>, <<\h70E, \h70F>>, <<\h74B, \h74C>>, <<\h7B2, \h7BF>>,
       <<\h7FB, \h7FC>>, <<\h82E, \h82F>>, <<\h83F, \h83F>>, <<\h85C, \h85D>>, <<\h85F, \h85F>>,
       <<\h86B, \h86F>>, <<\h88F, \h897>>, <<\h8E2, \h8E2>>, <<\h984, \h984>>, <<\h98D, \h98E>>,
       <<\h991, \h992>>, <<\h9A9, \h9A9>>, <<\h9B1, \h9B1>>, <<\h9B3, \h9B5>>, <<\h9BA, \h9BB>>,
       <<\h9C5, \h9C6>>, <<\h9C9, \h9CA>>, <<\h9CF, \h9D6>>, <<\h9D8, \h9DB>>, <<\h9DE, \h9DE>>,
       <<\h9E4, \h9E5>>, <<\h9FF, \hA00>>, <<\hA04, \hA04>>, <<\hA0B, \hA0E>>, <<\hA11, \hA12>>,
       <<\hA29, \hA29>>, <<\hA31, \hA31>>, <<\hA34, \hA34>>, <<\hA37, \hA37>>, <<\hA3A, \hA3B>>,
       <<\hA3D, \hA3D>>, <<\hA43, \hA46>>, <<\hA49, \hA4A>>, <<\hA4E, \hA50>>, <<\hA52, \hA58>>,
       <<\hA5D, \hA5D>>, <<\hA5F, \hA65>>, <<\hA77, \hA80>>, <<\hA84, \hA84>>, <<\hA8E, \hA8E>>,
       <<\hA92, \hA92>>, <<\hAA9, \hAA9>>, <<\hAB1, \hAB1>>, <<\hAB4, \hAB4>>, <<\hABA, \hABB>>,
       <<\hAC6, \hAC6>>, <<\hACA, \hACA>>, <<\hACE, \hACF>>, <<\hAD1, \hADF>>, <<\hAE4, \hAE5>>,
       <<\hAF2, \hAF8>>, <<\hB00, \hB00>>, <<\hB04, \hB04>>, <<\hB0D, \hB0E>>, <<\hB11, \hB12>>,
       <<\hB29, \hB29>>, <<\hB31, \hB31>>, <<\hB34, \hB34>>, <<\hB3A, \hB3B>>, <<\hB45, \hB46>>,
       <<\hB49, \hB4A>>, <<\hB4E, \hB54>>, <<\hB58, \hB5B>>, <<\hB5E, \hB5E>>, <<\hB64, \hB65>>,
       <<\hB78, \hB81>>, <<\hB84, \hB84>>, <<\hB8B, \hB8D>>, <<\hB91, \hB91>>, <<\hB96, \hB98>>,
       <<\hB9B, \hB9B>>, <<\hB9D, \hB9D>>, <<\hBA0, \hBA2>>, <<\hBA5, \hBA7>>, <<\hBAB, \hBAD>>,
       <<\hBBA, \hBBD>>, <<\hBC3, \hBC5>>, <<\hBC9, \hBC9>>, <<\hBCE, \hBCF>>, <<\hBD1, \hBD6>>,
       <<\hBD8, \hBE5>>, <<\hBFB, \hBFF>>, <<\hC0D, \hC0D>>, <<\hC11, \hC11>>, <<\hC29, \hC29>>,
       <<\hC3A, \hC3B>>, <<\hC45, \hC45>>, <<\hC49, \hC49>>, <<\hC4E, \hC54>>, <<\hC57, \hC57>>,
       <<\hC5B, \hC5C>>, <<\hC5E, \hC5F>>, <<\hC64, \hC65>>, <<\hC70, \hC76>>, <<\hC8D, \hC8D>>,
       <<\hC91, \hC91>>, <<\hCA9, \hCA9>>, <<\hCB4, \hCB4>>, <<\hCBA, \hCBB>>, <<\hCC5, \hCC5>>,
       <<\hCC9, \hCC9>>, <<\hCCE, \hCD4>>, <<\hCD7, \hCDC>>, <<\hCDF, \hCDF>>, <<\hCE4, \hCE5>>,
       <<\hCF0, \hCF0>>, <<\hCF3, \hCFF>>, <<\hD0D, \hD0D>>, <<\hD11, \hD11>>, <<\hD45, \hD45>>,
       <<\hD49, \hD49>>, <<\hD50, \hD53>>, <<\hD64, \hD65>>, <<\hD80, \hD80>>, <<\hD84, \hD84>>,
       <<\hD97, \hD99>>, <<\hDB2, \hDB2>>, <<\hDBC, \hDBC>>, <<\hDBE, \hDBF>>, <<\hDC7, \hDC9>>,
       <<\hDCB, \hDCE>>, <<\hDD5, \hDD5>>, <<\hDD7, \hDD7>>, <<\hDE0, \hDE5>>, <<\hDF0, \hDF1>>,
       <<\hDF5, \hE00>>, <<\hE3B, \hE3E>>, <<\hE5C, \hE80>>, <<\hE83, \hE83>>, <<\hE85, \hE85>>,
       <<\hE8B, \hE8B>>, <<\hEA4, \hEA4>>, <<\hEA6, \hEA6>>, <<\hEBE, \hEBF>>, <<\hEC5, \hEC5>>,
       <<\hEC7, \hEC7>>, <<\hECE, \hECF>>, <<\hEDA, \hEDB>>, <<\hEE0, \hEFF>>, <<\hF48, \hF48>>,
       <<\hF6D, \hF70>>, <<\hF98, \hF98>>, <<\hFBD, \hFBD>>, <<\hFCD, \hFCD>>, <<\hFDB, \hFFF>>,
       <<\h10C6, \h10C6>>, <<\h10C8, \h10CC>>, <<\h10CE, \h10CF>>, <<\h1249, \h1249>>, <<\h124E, \h124F>>,
       <<\h1257, \h1257>>, <<\h1259, \h1259>>, <<\h125E, \h125F>>, <<\h1289, \h1289>>, <<\h128E, \h128F>>,
       <<\h12B1, \h12B1>>, <<\h12B6, \h12B7>>, <<\h12BF, \h12BF>>, <<\h12C1, \h12C1>>, <<\h12C6, \h12C7>>,
       <<\h12D7, \h12D7>>, <<\h1311, \h1311>>, <<\h1316, \h1317>>, <<\h135B, \h135C>>, <<\h137D, \h137F>>,
       <<\h139A, \h139F>>, <<\h13F6, \h13F7>>, <<\h13FE, \h13FF>>, <<\h1680, \h1680>>, <<\h169D, \h169F>>,
       <<\h16F9, \h16FF>>, <<\h1716, \h171E>>, <<\h1737, \h173F>>, <<\h1754, \h175F>>, <<\h176D, \h176D>>,
       <<\h1771, \h1771>>, <<\h1774, \h177F>>, <<\h17DE, \h17DF>>, <<\h17EA, \h17EF>>, <<\h17FA, \h17FF>>,
       <<\h180E, \h180E>>, <<\h181A, \h181F>>, <<\h1879, \h187F>>, <<\h18AB, \h18AF>>, <<\h18F6, \h18FF>>,
       <<\h191F, \h191F>>, <<\h192C, \h192F>>, <<\h193C, \h193F>>, <<\h1941, \h1943>>, <<\h196E, \h196F>>,
       <<\h1975, \h197F>>, <<\h19AC, \h19AF>>, <<\h19CA, \h19CF>>, <<\h19DB, \h19DD>>, <<\h1A1C, \h1A1D>>,
       <<\h1A5F, \h1A5F>>, <<\h1A7D, \h1A7E>>, <<\h1A8A, \h1A8F>>, <<\h1A9A, \h1A9F>>, <<\h1AAE, \h1AAF>>,
       <<\h1ACF, \h1AFF>>, <<\h1B4D, \h1B4F>>, <<\h1B7F, \h1B7F>>, <<\h1BF4, \h1BFB>>, <<\h1C38, \h1C3A>>,
       <<\h1C4A, \h1C4C>>, <<\h1C89, \h1C8F>>, <<\h1CBB, \h1CBC>>, <<\h1CC8, \h1CCF>>, <<\h1CFB, \h1CFF>>,
       <<\h1F16, \h1F17>>, <<\h1F1E, \h1F1F>>, <<\h1F46, \h1F47>>, <<\h1F4E, \h1F4F>>, <<\h1F58, \h1F58>>,
       <<\h1F5A, \h1F5A>>, <<\h1F5C, \h1F5C>>, <<\h1F5E, \h1F5E>>, <<\h1F7E, \h1F7F>>, <<\h1FB5, \h1FB5>>,
       <<\h1FC5, \h1FC5>>, <<\h1FD4, \h1FD5>>, <<\h1FDC, \h1FDC>>, <<\h1FF0, \h1FF1>>, <<\h1FF5, \h1FF5>>,
       <<\h1FFF, \h200F>>, <<\h2028, \h202F>>, <<\h205F, \h206F>>, <<\h2072, \h2073>>, <<\h208F, \h208F>>,
       <<\h209D, \h209F>>, <<\h20C1, \h20CF>>, <<\h20F1, \h20FF>>, <<\h218C, \h218F>>, <<\h2427, \h243F>>,
       <<\h244B, \h245F>>, <<\h2B74, \h2B75>>, <<\h2B96, \h2B96>>, <<\h2CF4, \h2CF8>>, <<\h2D26, \h2D26>>,
       <<\h2D28, \h2D2C>>, <<\h2D2E, \h2D2F>>, <<\h2D68, \h2D6E>>, <<\h2D71, \h2D7E>>, <<\h2D97, \h2D9F>>,
       <<\h2DA7, \h2DA7>>, <<\h2DAF, \h2DAF>>, <<\h2DB7, \h2DB7>>, <<\h2DBF, \h2DBF>>, <<\h2DC7, \h2DC7>>,
       <<\h2DCF, \h2DCF>>, <<\h2DD7, \h2DD7>>, <<\h2DDF, \h2DDF>>, <<\h2E5E, \h2E7F>>, <<\h2E9A, \h2E9A>>,
       <<\h2EF4, \h2EFF>>, <<\h2FD6, \h2FEF>>, <<\h2FFC, \h3000>>, <<\h3040, \h3040>>, <<\h3097, \h3098>>,
       <<\h3100, \h3104>>, <<\h3130, \h3130>>, <<\h318F, \h318F>>, <<\h31E4, \h31EF>>, <<\h321F, \h321F>>,
       <<\hA48D, \hA48F>>, <<\hA4C7, \hA4CF>>, <<\hA62C, \hA63F>>, <<\hA6F8, \hA6FF>>, <<\hA7CB, \hA7CF>>,
       <<\hA7D2, \hA7D2>>, <<\hA7D4, \hA7D4>>, <<\hA7DA, \hA7F1>>, <<\hA82D, \hA82F>>, <<\hA83A, \hA83F>>,
       <<\hA878, \hA87F>>, <<\hA8C6, \hA8CD>>, <<\hA8DA, \hA8DF>>, <<\hA954, \hA95E>>, <<\hA97D, \hA97F>>,
       <<\hA9CE, \hA9CE>>, <<\hA9DA, \hA9DD>>, <<\hA9FF, \hA9FF>>, <<\hAA37, \hAA3F>>, <<\hAA4E, \hAA4F>>,
       <<\hAA5A, \hAA5B>>, <<\hAAC3, \hAADA>>, <<\hAAF7, \hAB00>>, <<\hAB07, \hAB08>>, <<\hAB0F, \hAB10>>,
       <<\hAB17, \hAB1F>>, <<\hAB27, \hAB27>>, <<\hAB2F, \hAB2F>>, <<\hAB6C, \hAB6F>>, <<\hABEE, \hABEF>>,
       <<\hABFA, \hABFF>>, <<\hD7A4, \hD7AF>>, <<\hD7C7, \hD7CA>>, <<\hD7FC, \hF8FF>>, <<\hFA6E, \hFA6F>>,
       <<\hFADA, \hFAFF>>, <<\hFB07, \hFB12>>, <<\hFB18, \hFB1C>>, <<\hFB37, \hFB37>>, <<\hFB3D, \hFB3D>>,
       <<\hFB3F, \hFB3F>>, <<\hFB42, \hFB42>>, <<\hFB45, \hFB45>>, <<\hFBC3, \hFBD2>>, <<\hFD90, \hFD91>>,
       <<\hFDC8, \hFDCE>>, <<\hFDD0, \hFDEF>>, <<\hFE1A, \hFE1F>>, <<\hFE53, \hFE53>>, <<\hFE67, \hFE67>>,
       <<\hFE6C, \hFE6F>>, <<\hFE75, \hFE75>>, <<\hFEFD, \hFF00>>, <<\hFFBF, \hFFC1>>, <<\hFFC8, \hFFC9>>,
       <<\hFFD0, \hFFD1>>, <<\hFFD8, \hFFD9>>, <<\hFFDD, \hFFDF>>, <<\hFFE7, \hFFE7>>, <<\hFFEF, \hFFFB>>,
       <<\hFFFE, \hFFFF>>, <<\h1000C, \h1000C>>, <<\h10027, \h10027>>, <<\h1003B, \h1003B>>, <<\h1003E, \h1003E>>,
       <<\h1004E, \h1004F>>, <<\h1005E, \h1007F>>, <<\h100FB, \h100FF>>, <<\h10103, \h10106>>, <<\h10134, \h10136>>,
       <<\h1018F, \h1018F>>, <<\h1019D, \h1019F>>, <<\h101A1, \h101CF>>, <<\h101FE, \h1027F>>, <<\h1029D, \h1029F>>,
       <<\h102D1, \h102DF>>, <<\h102FC, \h102FF>>, <<\h10324, \h1032C>>, <<\h1034B, \h1034F>>, <<\h1037B, \h1037F>>,
       <<\h1039E, \h1039E>>, <<\h103C4, \h103C7>>, <<\h103D6, \h103FF>>, <<\h1049E, \h1049F>>, <<\h104AA, \h104AF>>,
       <<\h104D4, \h104D7>>, <<\h104FC, \h104FF>>, <<\h10528, \h1052F>>, <<\h10564, \h1056E>>, <<\h1057B, \h1057B>>,
       <<\h1058B, \h1058B>>, <<\h10593, \h10593>>, <<\h10596, \h10596>>, <<\h105A2, \h105A2>>, <<\h105B2, \h105B2>>,
       <<\h105BA, \h105BA>>, <<\h105BD, \h105FF>>, <<\h10737, \h1073F>>, <<\h10756, \h1075F>>, <<\h10768, \h1077F>>,
       <<\h10786, \h10786>>, <<\h107B1, \h107B1>>, <<\h107BB, \h107FF>>, <<\h10806, \h10807>>, <<\h10809, \h10809>>,
       <<\h10836, \h10836>>, <<\h10839, \h1083B>>, <<\h1083D, \h1083E>>, <<\h10856, \h10856>>, <<\h1089F, \h108A6>>,
       <<\h108B0, \h108DF>>, <<\h108F3, \h108F3>>, <<\h108F6, \h108FA>>, <<\h1091C, \h1091E>>, <<\h1093A, \h1093E>>,
       <<\h10940, \h1097F>>, <<\h109B8, \h109BB>>, <<\h109D0, \h109D1>>, <<\h10A04, \h10A04>>, <<\h10A07, \h10A0B>>,
       <<\h10A14, \h10A14>>, <<\h10A18, \h10A18>>, <<\h10A36, \h10A37>>, <<\h10A3B, \h10A3E>>, <<\h10A49, \h10A4F>>,
       <<\h10A59, \h10A5F>>, <<\h10AA0, \h10ABF>>, <<\h10AE7, \h10AEA>>, <<\h10AF7, \h10AFF>>, <<\h10B36, \h10B38>>,
       <<\h10B56, \h10B57>>, <<\h10B73, \h10B77>>, <<\h10B92, \h10B98>>, <<\h10B9D, \h10BA8>>, <<\h10BB0, \h10BFF>>,
       <<\h10C49, \h10C7F>>, <<\h10CB3, \h10CBF>>, <<\h10CF3, \h10CF9>>, <<\h10D28, \h10D2F>>, <<\h10D3A, \h10E5F>>,
       <<\h10E7F, \h10E7F>>, <<\h10EAA, \h10EAA>>, <<\h10EAE, \h10EAF>>, <<\h10EB2, \h10EFF>>, <<\h10F28, \h10F2F>>,
       <<\h10F5A, \h10F6F>>, <<\h10F8A, \h10FAF>>, <<\h10FCC, \h10FDF>>, <<\h10FF7, \h10FFF>>, <<\h1104E, \h11051>>,
       <<\h11076, \h1107E>>, <<\h110BD, \h110BD>>, <<\h110C3, \h110CF>>, <<\h110E9, \h110EF>>, <<\h110FA, \h110FF>>,
       <<\h11135, \h11135>>, <<\h11148, \h1114F>>, <<\h11177, \h1117F>>, <<\h111E0, \h111E0>>, <<\h111F5, \h111FF>>,
       <<\h11212, \h11212>>, <<\h1123F, \h1127F>>, <<\h11287, \h11287>>, <<\h11289, \h11289>>, <<\h1128E, \h1128E>>,
       <<\h1129E, \h1129E>>, <<\h112AA, \h112AF>>, <<\h112EB, \h112EF>>, <<\h112FA, \h112FF>>, <<\h11304, \h11304>>,
       <<\h1130D, \h1130E>>, <<\h11311, \h11312>>, <<\h11329, \h11329>>, <<\h11331, \h11331>>, <<\h11334, \h11334>>,
       <<\h1133A, \h1133A>>, <<\h11345, \h11346>>, <<\h11349, \h1134A>>, <<\h1134E, \h1134F>>, <<\h11351, \h11356>>,
       <<\h11358, \h1135C>>, <<\h11364, \h11365>>, <<\h1136D, \h1136F>>, <<\h11375, \h113FF>>, <<\h1145C, \h1145C>>,
       <<\h11462, \h1147F>>, <<\h114C8, \h114CF>>, <<\h114DA, \h1157F>>, <<\h115B6, \h115B7>>, <<\h115DE, \h115FF>>,
       <<\h11645, \h1164F>>, <<\h1165A, \h1165F>>, <<\h1166D, \h1167F>>, <<\h116BA, \h116BF>>, <<\h116CA, \h116FF>>,
       <<\h1171B, \h1171C>>, <<\h1172C, \h1172F>>, <<\h11747, \h117FF>>, <<\h1183C, \h1189F>>, <<\h118F3, \h118FE>>,
       <<\h11907, \h11908>>, <<\h1190A, \h1190B>>, <<\h11914, \h11914>>, <<\h11917, \h11917>>, <<\h11936, \h11936>>,
       <<\h11939, \h1193A>>, <<\h11947, \h1194F>>, <<\h1195A, \h1199F>>, <<\h119A8, \h119A9>>, <<\h119D8, \h119D9>>,
       <<\h119E5, \h119FF>>, <<\h11A48, \h11A4F>>, <<\h11AA3, \h11AAF>>, <<\h11AF9, \h11BFF>>, <<\h11C09, \h11C09>>,
       <<\h11C37, \h11C37>>, <<\h11C46, \h11C4F>>, <<\h11C6D, \h11C6F>>, <<\h11C90, \h11C91>>, <<\h11CA8, \h11CA8>>,
       <<\h11CB7, \h11CFF>>, <<\h11D07, \h11D07>>, <<\h11D0A, \h11D0A>>, <<\h11D37, \h11D39>>, <<\h11D3B, \h11D3B>>,
       <<\h11D3E, \h11D3E>>, <<\h11D48, \h11D4F>>, <<\h11D5A, \h11D5F>>, <<\h11D66, \h11D66>>, <<\h11D69, \h11D69>>,
       <<\h11D8F, \h11D8F>>, <<\h11D92, \h11D92>>, <<\h11D99, \h11D9F>>, <<\h11DAA, \h11EDF>>, <<\h11EF9, \h11FAF>>,
       <<\h11FB1, \h11FBF>>, <<\h11FF2, \h11FFE>>, <<\h1239A, \h123FF>>, <<\h1246F, \h1246F>>, <<\h12475, \h1247F>>,
       <<\h12544, \h12F8F>>, <<\h12FF3, \h12FFF>>, <<\h1342F, \h143FF>>, <<\h14647, \h167FF>>, <<\h16A39, \h16A3F>>,
       <<\h16A5F, \h16A5F>>, <<\h16A6A, \h16A6D>>, <<\h16ABF, \h16ABF>>, <<\h16ACA, \h16ACF>>, <<\h16AEE, \h16AEF>>,
       <<\h16AF6, \h16AFF>>, <<\h16B46, \h16B4F>>, <<\h16B5A, \h16B5A>>, <<\h16B62, \h16B62>>, <<\h16B78, \h16B7C>>,
       <<\h16B90, \h16E3F>>, <<\h16E9B, \h16EFF>>, <<\h16F4B, \h16F4E>>, <<\h16F88, \h16F8E>>, <<\h16FA0, \h16FDF>>,
       <<\h16FE5, \h16FEF>>, <<\h16FF2, \h16FFF>>, <<\h187F8, \h187FF>>, <<\h18CD6, \h18CFF>>, <<\h18D09, \h1AFEF>>,
       <<\h1AFF4, \h1AFF4>>, <<\h1AFFC, \h1AFFC>>, <<\h1AFFF, \h1AFFF>>, <<\h1B123, \h1B14F>>, <<\h1B153, \h1B163>>,
       <<\h1B168, \h1B16F>>, <<\h1B2FC, \h1BBFF>>, <<\h1BC6B, \h1BC6F>>, <<\h1BC7D, \h1BC7F>>, <<\h1BC89, \h1BC8F>>,
       <<\h1BC9A, \h1BC9B>>, <<\h1BCA0, \h1CEFF>>, <<\h1CF2E, \h1CF2F>>, <<\h1CF47, \h1CF4F>>, <<\h1CFC4, \h1CFFF>>,
       <<\h1D0F6, \h1D0FF>>, <<\h1D127, \h1D128>>, <<\h1D173, \h1D17A>>, <<\h1D1EB, \h1D1FF>>, <<\h1D246, \h1D2DF>>,
       <<\h1D2F4, \h1D2FF>>, <<\h1D357, \h1D35F>>, <<\h1D379, \h1D3FF>>, <<\h1D455, \h1D455>>, <<\h1D49D, \h1D49D>>,
       <<\h1D4A0, \h1D4A1>>, <<\h1D4A3, \h1D4A4>>, <<\h1D4A7, \h1D4A8>>, <<\h1D4AD, \h1D4AD>>, <<\h1D4BA, \h1D4BA>>,
       <<\h1D4BC, \h1D4BC>>, <<\h1D4C4, \h1D4C4>>, <<\h1D506, \h1D506>>, <<\h1D50B, \h1D50C>>, <<\h1D515, \h1D515>>,
       <<\h1D51D, \h1D51D>>, <<\h1D53A, \h1D53A>>, <<\h1D53F, \h1D53F>>, <<\h1D545, \h1D545>>, <<\h1D547, \h1D549>>,
       <<\h1D551, \h1D551>>, <<\h1D6A6, \h1D6A7>>, <<\h1D7CC, \h1D7CD>>, <<\h1DA8C, \h1DA9A>>, <<\h1DAA0, \h1DAA0>>,
       <<\h1DAB0, \h1DEFF>>, <<\h1DF1F, \h1DFFF>>, <<\h1E007, \h1E007>>, <<\h1E019, \h1E01A>>, <<\h1E022, \h1E022>>,
       <<\h1E025, \h1E025>>, <<\h1E02B, \h1E0FF>>, <<\h1E12D, \h1E12F>>, <<\h1E13E, \h1E13F>>, <<\h1E14A, \h1E14D>>,
       <<\h1E150, \h1E28F>>, <<\h1E2AF, \h1E2BF>>, <<\h1E2FA, \h1E2FE>>, <<\h1E300, \h1E7DF>>, <<\h1E7E7, \h1E7E7>>,
       <<\h1E7EC, \h1E7EC>>, <<\h1E7EF, \h1E7EF>>, <<\h1E7FF, \h1E7FF>>, <<\h1E8C5, \h1E8C6>>, <<\h1E8D7, \h1E8FF>>,
       <<\h1E94C, \h1E94F>>, <<\h1E95A, \h1E95D>>, <<\h1E960, \h1EC70>>, <<\h1ECB5, \h1ED00>>, <<\h1ED3E, \h1EDFF>>,
       <<\h1EE04, \h1EE04>>, <<\h1EE20, \h1EE20>>, <<\h1EE23, \h1EE23>>, <<\h1EE25, \h1EE26>>, <<\h1EE28, \h1EE28>>,
       <<\h1EE33, \h1EE33>>, <<\h1EE38, \h1EE38>>, <<\h1EE3A, \h1EE3A>>, <<\h1EE3C, \h1EE41>>, <<\h1EE43, \h1EE46>>,
       <<\h1EE48, \h1EE48>>, <<\h1EE4A, \h1EE4A>>, <<\h1EE4C, \h1EE4C>>, <<\h1EE50, \h1EE50>>, <<\h1EE53, \h1EE53>>,
       <<\h1EE55, \h1EE56>>, <<\h1EE58, \h1EE58>>, <<\h1EE5A, \h1EE5A>>, <<\h1EE5C, \h1EE5C>>, <<\h1EE5E, \h1EE5E>>,
       <<\h1EE60, \h1EE60>>, <<\h1EE63, \h1EE63>>, <<\h1EE65, \h1EE66>>, <<\h1EE6B, \h1EE6B>>, <<\h1EE73, \h1EE73>>,
       <<\h1EE78, \h1EE78>>, <<\h1EE7D, \h1EE7D>>, <<\h1EE7F, \h1EE7F>>, <<\h1EE8A, \h1EE8A>>, <<\h1EE9C, \h1EEA0>>,
       <<\h1EEA4, \h1EEA4>>, <<\h1EEAA, \h1EEAA>>, <<\h1EEBC, \h1EEEF>>, <<\h1EEF2, \h1EFFF>>, <<\h1F02C, \h1F02F>>,
       <<\h1F094, \h1F09F>>, <<\h1F0AF, \h1F0B0>>, <<\h1F0C0, \h1F0C0>>, <<\h1F0D0, \h1F0D0>>, <<\h1F0F6, \h1F0FF>>,
       <<\h1F1AE, \h1F1E5>>, <<\h1F203, \h1F20F>>, <<\h1F23C, \h1F23F>>, <<\h1F249, \h1F24F>>, <<\h1F252, \h1F25F>>,
       <<\h1F266, \h1F2FF>>, <<\h1F6D8, \h1F6DC>>, <<\h1F6ED, \h1F6EF>>, <<\h1F6FD, \h1F6FF>>, <<\h1F774, \h1F77F>>,
       <<\h1F7D9, \h1F7DF>>, <<\h1F7EC, \h1F7EF>>, <<\h1F7F1, \h1F7FF>>, <<\h1F80C, \h1F80F>>, <<\h1F848, \h1F84F>>,
       <<\h1F85A, \h1F85F>>, <<\h1F888, \h1F88F>>, <<\h1F8AE, \h1F8AF>>, <<\h1F8B2, \h1F8FF>>, <<\h1FA54, \h1FA5F>>,
       <<\h1FA6E, \h1FA6F>>, <<\h1FA75, \h1FA77>>, <<\h1FA7D, \h1FA7F>>, <<\h1FA87, \h1FA8F>>, <<\h1FAAD, \h1FAAF>>,
       <<\h1FABB, \h1FABF>>, <<\h1FAC6, \h1FACF>>, <<\h1FADA, \h1FADF>>, <<\h1FAE8, \h1FAEF>>, <<\h1FAF7, \h1FAFF>>,
       <<\h1FB93, \h1FB93>>, <<\h1FBCB, \h1FBEF>>, <<\h1FBFA, \h1FFFF>>, <<\h2A6E0, \h2A6FF>>, <<\h2B739, \h2B73F>>,
       <<\h2B81E, \h2B81F>>, <<\h2CEA2, \h2CEAF>>, <<\h2EBE1, \h2F7FF>>, <<\h2FA1E, \h2FFFF>>, <<\h3134B, \hE00FF>>,
       <<\hE01F0, \h10FFFF>> >>

\* the characters of a key of a dict
chars(key) == [i \in 1..Len(key) |-> SubSeq(key, i, i)]

LOWER_HEX == <<"0", "1", "2", "3", "4", "5", "6", "7", "8", "9", "a", "b", "c", "d", "e", "f">>

\* the hexadecimal digits of n in lower case, `width` of them at least
RECURSIVE hex_chars(_, _)
hex_chars(n, width) ==
    IF n = 0 /\ width <= 0 THEN <<>>
    ELSE hex_chars(n \div 16, width - 1) \o <<LOWER_HEX[(n % 16) + 1]>>

\* the quote repr() puts around a str: the double one when the str holds a
\* single quote and no double one
quote_of(s) ==
    IF (\E i \in 1..Len(s) : s[i] = "'") /\ ~(\E i \in 1..Len(s) : s[i] = "\"")
    THEN "\"" ELSE "'"

\* what repr() writes for one character of a str within the quote `quote`
repr_char(c, quote) ==
    LET n == ord(c)
    IN  IF c = "\\" \/ c = quote THEN <<"\\", c>>
        ELSE IF c = "\t" THEN <<"\\", "t">>
        ELSE IF c = "\n" THEN <<"\\", "n">>
        ELSE IF c = "\r" THEN <<"\\", "r">>
        ELSE IF n < 0 \/ ~in_ranges(n, NOT_PRINTABLE_RANGES) THEN <<c>>
        ELSE IF n < \h100 THEN <<"\\", "x">> \o hex_chars(n, 2)
        ELSE IF n < \h10000 THEN <<"\\", "u">> \o hex_chars(n, 4)
        ELSE <<"\\", "U">> \o hex_chars(n, 8)

RECURSIVE escaped(_, _)
escaped(s, quote) ==
    IF s = <<>> THEN <<>> ELSE repr_char(Head(s), quote) \o escaped(Tail(s), quote)

\* repr(s) of a str
str_repr(s) == <<quote_of(s)>> \o escaped(s, quote_of(s)) \o <<quote_of(s)>>

\* str(n) of an int
int_str(n) == IF n < 0 THEN <<"-">> \o digits(0 - n) ELSE digits(n)

\* repr(x) of the float x nearest to n / 1000, 0 <= n: the shortest decimal
\* that reads back as x, which is n / 1000 without its trailing zeros
float_repr(n) ==
    LET f == n % 1000
    IN  digits(n \div 1000) \o <<".">>
        \o (IF f % 100 = 0 THEN <<ToString(f \div 100)>>
            ELSE IF f % 10 = 0 THEN <<ToString(f \div 100), ToString((f \div 10) % 10)>>
            ELSE <<ToString(f \div 100), ToString((f \div 10) % 10), ToString(f % 10)>>)

\* repr(value) of a value read from JSON
RECURSIVE repr(_)
repr(v) ==
    CASE v.t = "None" -> <<"N", "o", "n", "e">>
      [] v.t = "int" -> int_str(v.v)
      [] v.t = "float" -> float_repr(v.v)
      [] v.t = "str" -> str_repr(v.v)
      [] v.t = "list" ->
            <<"[">> \o join(<<",", " ">>, [i \in 1..Len(v.v) |-> repr(v.v[i])]) \o <<"]">>
      [] OTHER ->
            <<"{">>
            \o join(<<",", " ">>,
                    [i \in 1..Len(v.keys) |->
                       str_repr(chars(v.keys[i])) \o <<":", " ">> \o repr(v.v[v.keys[i]])])
            \o <<"}">>

\* f"{value}" and str(value) of a field value: a str as it is, any other
\* value as repr() writes it, so None as the text None
fmt(v) == IF v.t = "str" THEN v.v ELSE repr(v)

NA == PyStr(<<"N", "/", "A">>)

\* whether ", ".join(xs) raises TypeError: xs is no iterable (None, a number)
\* or a list with an item that is no str; a str is an iterable of its
\* characters and a dict of its keys, which are str
join_raises(xs) ==
    CASE xs.t = "str" -> FALSE
      [] xs.t = "dict" -> FALSE
      [] xs.t = "list" -> \E i \in 1..Len(xs.v) : xs.v[i].t # "str"
      [] OTHER -> TRUE

\* the texts of a list of str
RECURSIVE texts(_)
texts(l) == IF l = <<>> THEN <<>> ELSE <<Head(l).v>> \o texts(Tail(l))

\* list(d) of a dict: its keys in the order they were inserted in
dict_keys(d) == d.keys

\* the texts ", ".join(xs) joins: the items of a list, the characters of a
\* str, the keys of a dict
joined_items(xs) ==
    CASE xs.t = "str" -> [i \in 1..Len(xs.v) |-> <<xs.v[i]>>]
      [] xs.t = "dict" -> [i \in 1..Len(dict_keys(xs)) |-> chars(dict_keys(xs)[i])]
      [] OTHER -> texts(xs.v)

\* bool(value) of a field value
truthy(v) ==
    CASE v.t = "None" -> FALSE
      [] v.t = "list" -> v.v # <<>>
      [] v.t = "str" -> v.v # <<>>
      [] v.t = "dict" -> dict_keys(v) # <<>>
      [] OTHER -> v.v # 0

(***************************************************************************)
(* app.py: the embedding provider and the three collection searchers.      *)
(* An embedding outcome is TRUE when the call returns a vector; a search   *)
(* outcome says whether search() raises, which hits the iteration yields,  *)
(* and whether the iteration raises after them (the request is sent when   *)
(* the results are first iterated).                                        *)
(***************************************************************************)
VECTOR == <<1536>>

\* app.py generate_embedding: the vector, or [] when the call raises
generate_embedding(text, embed_ok) == IF embed_ok THEN VECTOR ELSE <<>>

\* app.py generate_embedding: the embedding call, and the error logged when it raises
embedding_calls(who, text, embed_ok) ==
    <<EmbedCall(who, text)>> \o (IF embed_ok THEN <<>> ELSE <<Log("embedding")>>)

\* a variant of vectorized that builds a vector query from an empty vector too
vectorized_unguarded(query_vector, k) ==
    <<[vector |-> query_vector, k_nearest_neighbors |-> k, fields |-> "vector_embedding"]>>

\* the VectorizedQuery list of a searcher
vectorized(query_vector, k) ==
    IF query_vector # <<>>
    THEN <<[vector |-> query_vector, k_nearest_neighbors |-> k, fields |-> "vector_embedding"]>>
    ELSE <<>>

\* The Korean literals of the source are written as English glosses, one
\* element each: "Dictionary" for the dictionary tag, "**Korean**:" and so on
\* for the field labels.
NO_EXAMPLE == <<"(no example)">>

\* the context string of one dictionary hit (app.py line 159)
dictionary_snippet(result) ==
    <<"[Context: Dictionary(Score:">> \o fmt2f(score_or_zero(result))
    \o <<")] **Korean**: ">> \o fmt(get(result, "korean", NA))
    \o <<" **English**: ">> \o fmt(get(result, "english", NA))
    \o <<" **Abbreviation**: ">> \o fmt(get(result, "abbreviation", NA))
    \o <<" **Description**: ">> \o fmt(get(result, "description", NA))

\* the example string of one rules hit (app.py lines 196-197)
example_str(result) ==
    LET examples == get(result, "example", PyList(<<>>))
    IN  IF truthy(examples) THEN join(<<", ">>, joined_items(examples)) ELSE NO_EXAMPLE

\* whether formatting a rules hit raises (", ".join of a non-iterable or of a non-str item)
rules_snippet_raises(result) ==
    LET examples == get(result, "example", PyList(<<>>))
    IN  truthy(examples) /\ join_raises(examples)

\* the context string of one rules hit (app.py line 199)
rules_snippet(result) ==
    <<"[Context: ">> \o fmt(get(result, "category", NA)) \o <<" ">>
    \o fmt(get(result, "type", NA)) \o <<" Rule (Score:">>
    \o fmt2f(score_or_zero(result))
    \o <<")] **Rule**: ">> \o fmt(get(result, "rule_kr", NA))
    \o <<" **Example**: ">> \o example_str(result)

\* the context string of one Q&A hit (app.py line 237)
qa_snippet(result) ==
    <<"[Context: QA-">> \o fmt(get(result, "category", NA)) \o <<" (Score:">>
    \o fmt2f(score_or_zero(result))
    \o <<")] **Question**: ">> \o fmt(get(result, "question", NA))
    \o <<" **Answer**: ">> \o fmt(get(result, "answer", NA))

RECURSIVE map_dictionary(_)
map_dictionary(hits) ==
    IF hits = <<>> THEN <<>> ELSE <<dictionary_snippet(Head(hits))>> \o map_dictionary(Tail(hits))

RECURSIVE map_rules(_)
map_rules(hits) ==
    IF hits = <<>> THEN <<>> ELSE <<rules_snippet(Head(hits))>> \o map_rules(Tail(hits))

\* a variant of map_qa that puts each snippet in front of the list
RECURSIVE map_qa_prepending(_)
map_qa_prepending(hits) ==
    IF hits = <<>> THEN <<>> ELSE map_qa_prepending(Tail(hits)) \o <<qa_snippet(Head(hits))>>

RECURSIVE map_qa(_)
map_qa(hits) ==
    IF hits = <<>> THEN <<>> ELSE <<qa_snippet(Head(hits))>> \o map_qa(Tail(hits))

\* what a searcher hands back: whether an exception left it, its return value,
\* and the external calls it made
Returned(value, made) == [calls |-> made, value |-> value, raised |-> FALSE]

\* app.py search_dictionary_for_terms
search_dictionary_for_terms(request, query, embed_ok, found) ==
    LET query_vector == generate_embedding(request, embed_ok)
        vector_queries == vectorized(query_vector, 5)
        made == embedding_calls("dictionary", request, embed_ok)
                \o <<Call("search", "dictionary", query, <<>>, vector_queries, 5)>>
    IN  IF found.raises \/ found.iter_raises
        THEN Returned(<<>>, made \o <<Log("dictionary")>>)
        ELSE Returned(map_dictionary(found.hits), made)

\* a variant of search_rules_for_context without the except clause
search_rules_for_context_propagating(request, query, embed_ok, found) ==
    LET query_vector == generate_embedding(request, embed_ok)
        vector_queries == vectorized(query_vector, 5)
        made == embedding_calls("rules", request, embed_ok)
                \o <<Call("search", "rules", query, <<>>, vector_queries, 5)>>
    IN  IF found.raises \/ found.iter_raises
           \/ \E i \in 1..Len(found.hits) : rules_snippet_raises(found.hits[i])
        THEN [calls |-> made, value |-> <<>>, raised |-> TRUE]
        ELSE Returned(map_rules(found.hits), made)

\* a variant of search_rules_for_context whose except clause returns the
\* snippets formatted before the exception
search_rules_for_context_keeping_formatted(request, query, embed_ok, found) ==
    LET query_vector == generate_embedding(request, embed_ok)
        vector_queries == vectorized(query_vector, 5)
        made == embedding_calls("rules", request, embed_ok)
                \o <<Call("search", "rules", query, <<>>, vector_queries, 5)>>
        bad == {i \in 1..Len(found.hits) : rules_snippet_raises(found.hits[i])}
        formatted == {i \in 1..Len(found.hits) : \A j \in bad : i < j}
    IN  IF found.raises
        THEN Returned(<<>>, made \o <<Log("rules")>>)
        ELSE IF found.iter_raises \/ bad # {}
        THEN Returned(map_rules(SubSeq(found.hits, 1, Cardinality(formatted))),
                      made \o <<Log("rules")>>)
        ELSE Returned(map_rules(found.hits), made)

\* app.py search_rules_for_context
search_rules_for_context(request, query, embed_ok, found) ==
    LET query_vector == generate_embedding(request, embed_ok)
        vector_queries == vectorized(query_vector, 5)
        made == embedding_calls("rules", request, embed_ok)
                \o <<Call("search", "rules", query, <<>>, vector_queries, 5)>>
    IN  IF found.raises \/ found.iter_raises
           \/ \E i \in 1..Len(found.hits) : rules_snippet_raises(found.hits[i])
        THEN Returned(<<>>, made \o <<Log("rules")>>)
        ELSE Returned(map_rules(found.hits), made)

\* a variant of search_qa_for_context that asks for no embedding of its own
search_qa_for_context_without_embedding(request, query, embed_ok, found) ==
    LET made == <<Call("search", "qa", query, <<>>, <<>>, 3)>>
    IN  IF found.raises \/ found.iter_raises
        THEN Returned(<<>>, made \o <<Log("qa")>>)
        ELSE Returned(map_qa(found.hits), made)

\* app.py search_qa_for_context
search_qa_for_context(request, query, embed_ok, found) ==
    LET query_vector == generate_embedding(request, embed_ok)
        vector_queries == vectorized(query_vector, 3)
        made == embedding_calls("qa", request, embed_ok)
                \o <<Call("search", "qa", query, <<>>, vector_queries, 3)>>
    IN  IF found.raises \/ found.iter_raises
        THEN Returned(<<>>, made \o <<Log("qa")>>)
        ELSE Returned(map_qa(found.hits), made)

(***************************************************************************)
(* app.py: the answer generator and the code analyzer.  The outcome of the *)
(* completion call is "raise" (with a reason), "none" or "text".           *)
(***************************************************************************)
REASON == <<"<reason>">>

\* what the completion returns as message.content: a str, or None
content_of(outcome) ==
    IF outcome.kind = "text" THEN PyStr(outcome.content) ELSE PyNone

\* characters str.splitlines() ends a line at; "\r" followed by "\n" ends one line
LineBoundaries ==
    {"\n", "\r", "\f", "<U+000B>", "<U+001C>", "<U+001D>", "<U+001E>", "<U+0085>",
     "<U+2028>", "<U+2029>"}

\* the lines of s after the line `line` that is being read
RECURSIVE lines_after(_, _)
lines_after(line, s) ==
    IF s = <<>> THEN (IF line = <<>> THEN <<>> ELSE <<line>>)
    ELSE IF Len(s) >= 2 /\ s[1] = "\r" /\ s[2] = "\n"
    THEN <<line>> \o lines_after(<<>>, Tail(Tail(s)))
    ELSE IF Head(s) \in LineBoundaries THEN <<line>> \o lines_after(<<>>, Tail(s))
    ELSE lines_after(line \o <<Head(s)>>, Tail(s))

\* str.splitlines(): no empty last line after a final line boundary
splitlines(s) == lines_after(<<>>, s)

\* name.split(".")[-1].upper() if "." in name else "UNKNOWN"
file_type_of(name) ==
    IF \E i \in 1..Len(name) : name[i] = "."
    THEN LET parts == split(name, ".") IN upper(parts[Len(parts)])
    ELSE <<"U", "N", "K", "N", "O", "W", "N">>

\* a variant of fmt04d that does not pad
fmt04d_unpadded(n) == digits(n)

\* f"{n:04d}" for n >= 0: zeros in front up to a width of 4
fmt04d(n) ==
    IF n < 10000
    THEN <<ToString(n \div 1000), ToString((n \div 100) % 10),
           ToString((n \div 10) % 10), ToString(n % 10)>>
    ELSE digits(n)

\* f"{i+1:04d}: {line}", i counting from 0
numbered_line(i, line) == fmt04d(i + 1) \o <<":", " ">> \o line

\* "\n".join(f"{i+1:04d}: {line}" for i, line in enumerate(code_content.splitlines()))
numbered(code) ==
    LET lines == splitlines(code)
    IN  join(<<"\n">>, [i \in 1..Len(lines) |-> numbered_line(i - 1, lines[i])])

\* what the generator or the analyzer hands back
Answered(value, made) == [calls |-> made, value |-> value, raised |-> FALSE]

\* a variant of generate_response_with_llm without the except clause
generate_response_with_llm_propagating(request, context_list, outcome) ==
    LET context_str == join(<<"\n">>, context_list)
        made == <<Call("complete", "generate", request, context_str, <<>>, 0)>>
    IN  IF outcome.kind = "raise"
        THEN [calls |-> made, value |-> PyNone, raised |-> TRUE]
        ELSE Answered(content_of(outcome), made)

\* app.py generate_response_with_llm
generate_response_with_llm(request, context_list, outcome) ==
    LET context_str == join(<<"\n">>, context_list)
        made == <<Call("complete", "generate", request, context_str, <<>>, 0)>>
    IN  IF outcome.kind = "raise"
        THEN Answered(PyStr(<<"GENERATION_ERROR(">> \o REASON \o <<")">>),
                      made \o <<Log("generate")>>)
        ELSE Answered(content_of(outcome), made)

\* app.py analyze_code_with_llm
analyze_code_with_llm(file_name, code, context_list, outcome) ==
    LET file_type == file_type_of(file_name)
        context_str == join(<<"\n">>, context_list)
        numbered_content == numbered(code)
        made == <<Call("complete", "analyze", file_name \o <<"|">> \o file_type \o <<"|">>
                        \o numbered_content, context_str, <<>>, 0)>>
    IN  IF outcome.kind = "raise"
        THEN Answered(PyStr(<<"ANALYSIS_ERROR(">> \o REASON \o <<")">>),
                      made \o <<Log("analyze")>>)
        ELSE Answered(content_of(outcome), made)

\* the fixed answer of the text-question mode when nothing was retrieved (app.py 598-600)
NO_CONTEXT_ANSWER == <<"NO_RELEVANT_CONTEXT">>

(***************************************************************************)
(* function_app.py: the searchers of the HTTP entry point.  The rules and  *)
(* Q&A searchers index the hit (result['category']), so an absent field    *)
(* raises KeyError; the dictionary searcher matches the keywords against   *)
(* the terms of DICTIONARY_DATA by substring.                              *)
(***************************************************************************)
has(result, keys) == \A k \in keys : k \in DOMAIN result

\* whether formatting a rules hit raises (function_app.py line 178)
fa_rules_snippet_raises(result) ==
    \/ ~has(result, {"category", "type", "rule_kr", "example"})
    \/ join_raises(result["example"])

\* the context string of one rules hit (function_app.py line 178)
fa_rules_snippet(result) ==
    <<"[Context: ">> \o fmt(result["category"]) \o <<" ">> \o fmt(result["type"])
    \o <<" Rule] **Rule**: ">> \o fmt(result["rule_kr"])
    \o <<" **Example**: ">> \o join(<<", ">>, joined_items(result["example"]))

\* whether formatting a Q&A hit raises (function_app.py line 205)
fa_qa_snippet_raises(result) == ~has(result, {"category", "question", "answer"})

\* the context string of one Q&A hit (function_app.py line 205)
fa_qa_snippet(result) ==
    <<"[Context: QA-">> \o fmt(result["category"])
    \o <<"] **Question**: ">> \o fmt(result["question"])
    \o <<" **Answer**: ">> \o fmt(result["answer"])

RECURSIVE fa_map_rules(_)
fa_map_rules(hits) ==
    IF hits = <<>> THEN <<>> ELSE <<fa_rules_snippet(Head(hits))>> \o fa_map_rules(Tail(hits))

RECURSIVE fa_map_qa(_)
fa_map_qa(hits) ==
    IF hits = <<>> THEN <<>> ELSE <<fa_qa_snippet(Head(hits))>> \o fa_map_qa(Tail(hits))

\* function_app.py search_rules_for_context
fa_search_rules_for_context(query, found) ==
    LET made == <<Call("search", "rules", query, <<>>, <<>>, 3)>>
    IN  IF found.raises \/ found.iter_raises
           \/ \E i \in 1..Len(found.hits) : fa_rules_snippet_raises(found.hits[i])
        THEN Returned(<<>>, made \o <<Log("rules")>>)
        ELSE Returned(fa_map_rules(found.hits), made)

\* function_app.py search_qa_for_context
fa_search_qa_for_context(query, found) ==
    LET made == <<Call("search", "qa", query, <<>>, <<>>, 2)>>
    IN  IF found.raises \/ found.iter_raises
           \/ \E i \in 1..Len(found.hits) : fa_qa_snippet_raises(found.hits[i])
        THEN Returned(<<>>, made \o <<Log("qa")>>)
        ELSE Returned(fa_map_qa(found.hits), made)

\* a in b, for str
contains(b, a) == \E i \in 0..(Len(b) - Len(a)) : SubSeq(b, i + 1, i + Len(a)) = a

\* SAMPLE_DICTIONARY_ARRAY as load_dictionary converts it, in insertion order;
\* each Korean syllable is one character, written in romanised form
DICTIONARY_DATA ==
    << [korean |-> <<"sang", "pum">>,
        item |-> [english |-> PyStr(<<"Product">>), abbreviation |-> PyStr(<<"PROD">>),
                  description |-> PyStr(<<"<goods sold>">>)]],
       [korean |-> <<"jae", "go">>,
        item |-> [english |-> PyStr(<<"Stock/Inventory">>), abbreviation |-> PyStr(<<"INV">>),
                  description |-> PyStr(<<"<goods in store>">>)]],
       [korean |-> <<"pum", "jeol">>,
        item |-> [english |-> PyStr(<<"Sold Out">>), abbreviation |-> PyStr(<<"OOS">>),
                  description |-> PyStr(<<"<out of stock>">>)]],
       [korean |-> <<"hal", "in">>,
        item |-> [english |-> PyStr(<<"Discount">>), abbreviation |-> PyStr(<<"DC">>),
                  description |-> PyStr(<<"<price cut>">>)]],
       [korean |-> <<"jeong", "ga">>,
        item |-> [english |-> PyStr(<<"Regular Price">>), abbreviation |-> PyStr(<<"RP">>),
                  description |-> PyStr(<<"<list price>">>)]] >>

\* the context string of one dictionary term (function_app.py line 152)
fa_dictionary_snippet(term_kr, term_data) ==
    <<"[Context: Dictionary] **Korean**: ">> \o term_kr
    \o <<" **English**: ">> \o fmt(get(term_data, "english", NA))
    \o <<" **Abbreviation**: ">> \o fmt(get(term_data, "abbreviation", NA))
    \o <<" **Description**: ">> \o fmt(get(term_data, "description", NA))

\* any(keyword.lower() in term_kr.lower() or term_kr.lower() in keyword.lower() ...)
fa_is_match(term_kr, keywords) ==
    \E i \in 1..Len(keywords) :
        \/ contains(lower(term_kr), lower(keywords[i]))
        \/ contains(lower(keywords[i]), lower(term_kr))

in_list(x, l) == \E i \in 1..Len(l) : l[i] = x

\* the loop of search_dictionary_for_terms over the first n terms
RECURSIVE fa_dictionary_loop(_, _)
fa_dictionary_loop(keywords, n) ==
    IF n = 0 THEN <<>>
    ELSE LET sofar == fa_dictionary_loop(keywords, n - 1)
             term == DICTIONARY_DATA[n]
             context == fa_dictionary_snippet(term.korean, term.item)
         IN  IF fa_is_match(term.korean, keywords) /\ ~in_list(context, sofar)
             THEN Append(sofar, context)
             ELSE sofar

\* function_app.py search_dictionary_for_terms; are_str tells whether the
\* keywords are str: keyword.lower() raises AttributeError otherwise, for the
\* first term of the dictionary, and nothing catches it
fa_search_dictionary_for_terms(keywords, are_str) ==
    IF ~are_str /\ keywords # <<>> /\ DICTIONARY_DATA # <<>>
    THEN [calls |-> <<>>, value |-> <<>>, raised |-> TRUE]
    ELSE Returned(fa_dictionary_loop(keywords, Len(DICTIONARY_DATA)), <<>>)

\* function_app.py generate_response_with_llm
fa_generate_response_with_llm(request, context_list, outcome) ==
    LET context_str == join(<<"\n">>, context_list)
        made == <<Call("complete", "generate", request, context_str, <<>>, 0)>>
    IN  IF outcome.kind = "raise"
        THEN Answered(PyStr(<<"GENERATION_ERROR(">> \o REASON \o <<")">>),
                      made \o <<Log("generate")>>)
        ELSE Answered(content_of(outcome), made)

(***************************************************************************)
(* app.py: uploaded files and the session.  An uploaded file is a stream:  *)
(* read() returns its bytes from the current position and leaves the       *)
(* position at the end; the widget hands a fresh stream to every script    *)
(* run (pos = 0).                                                          *)
(***************************************************************************)
NoFile == [text |-> <<>>, name |-> <<>>, present |-> FALSE, valid |-> TRUE, pos |-> 0]
File(name, valid, text) ==
    [text |-> text, name |-> name, present |-> TRUE, valid |-> valid, pos |-> 0]

NoResult == [rules_context |-> <<>>, dictionary_context |-> <<>>, qa_context |-> <<>>,
             question |-> <<>>, answer |-> PyNone, metadata |-> [type |-> "none"]]

InitLocals ==
    /\ is_file_analysis = FALSE
    /\ user_request = <<>>
    /\ code_content = <<>>
    /\ keywords_list = <<>>
    /\ search_query = <<>>
    /\ rules_context = <<>>
    /\ dictionary_context = <<>>
    /\ qa_context = <<>>
    /\ all_context = <<>>
    /\ final_answer = PyNone

NoArg == [fn |-> "none"]

\* what a request was started with: the button, the text and the file handed in
NoSubmission == [text |-> <<>>, by |-> "none", file |-> NoFile]
Submission(by, text, file) == [text |-> text, by |-> by, file |-> file]

\* the environment variables app.py reads and then tests (app.py 24-47)
REQUIRED ==
    {"OPENAI_ENDPOINT", "OPENAI_KEY", "AZURE_SEARCH_ENDPOINT", "AZURE_SEARCH_API_KEY",
     "OPENAI_DEPLOYMENT_EMBEDDING"}

\* a start of the process: the variables of REQUIRED that os.getenv gives a
\* non-empty value for (an unset variable is None, and None and "" are
\* both false), and whether the constructors of app.py 56-75 return
Startup(set, constructs) == [set |-> set, constructs |-> constructs]
Configured == Startup(REQUIRED, TRUE)

\* a variant of environment_incomplete that does not test the search endpoint
environment_incomplete_of_openai(s) ==
    ~(\A name \in REQUIRED \ {"AZURE_SEARCH_ENDPOINT"} : name \in s.set)

\* app.py 41-53: not all([...]) shows an error and stops the script
environment_incomplete(s) == ~(\A name \in REQUIRED : name \in s.set)

\* app.py 55-79: an exception of a constructor shows an error and stops the script
client_initialization_fails(s) == ~s.constructs

\* where the top of the script leaves the script run: stopped by st.stop()
\* before any widget or the run block, or on to the rest of the script
script_top(s) ==
    IF environment_incomplete(s) THEN "stopped"
    ELSE IF client_initialization_fails(s) THEN "stopped"
    ELSE "idle"

\* app.py 341-358: the session state after the first script run;
\* function_app.py: no request received yet
StartWith(programs, startups) ==
    /\ program \in programs
    /\ run_rag = FALSE
    /\ user_input = <<>>
    /\ is_processing = FALSE
    /\ show_warning = FALSE
    /\ history = <<>>
    /\ show_warning_empty = FALSE
    /\ current_result = NoResult
    /\ show_result = FALSE
    /\ uploaded_file = NoFile
    /\ file_uploader = NoFile
    /\ run_button_disabled = FALSE
    /\ startup \in startups
    /\ pc = script_top(startup)
    /\ InitLocals
    /\ req = [kind |-> "none", request_text |-> <<>>]
    /\ http_response = [status_code |-> 0]
    /\ calls = <<>>
    /\ requests = <<>>
    /\ submission = NoSubmission

\* the start of a process whose environment is complete
Start(programs) == StartWith(programs, {Configured})

Init ==
    /\ Start({"app", "function_app"})
    /\ unit_arg = NoArg
    /\ unit_ret = NoArg

\* the guard of the run block (app.py 499-501), on the state a callback leaves
run_block_entered(rr, text, file) == rr /\ (text # <<>> \/ file.present)

\* a variant of start_integrated_process that does not test its inputs
start_integrated_process_unchecked(text, file) ==
    /\ user_input' = text
    /\ file_uploader' = file
    /\ IF is_processing
       THEN /\ show_warning' = TRUE
            /\ UNCHANGED <<run_rag, is_processing, current_result, uploaded_file,
                           show_warning_empty>>
       ELSE /\ run_rag' = TRUE
            /\ is_processing' = TRUE
            /\ current_result' = NoResult
            /\ uploaded_file' = IF file.present THEN file ELSE uploaded_file
            /\ UNCHANGED <<show_warning, show_warning_empty>>
    /\ UNCHANGED <<history, show_result>>

\* a variant of start_integrated_process that does not test is_processing
start_integrated_process_unguarded(text, file) ==
    /\ user_input' = text
    /\ file_uploader' = file
    /\ IF text # <<>> \/ file.present
       THEN /\ run_rag' = TRUE
            /\ is_processing' = TRUE
            /\ current_result' = NoResult
            /\ uploaded_file' = IF file.present THEN file ELSE uploaded_file
            /\ UNCHANGED <<show_warning, show_warning_empty>>
       ELSE /\ show_warning_empty' = TRUE
            /\ UNCHANGED <<run_rag, is_processing, current_result, uploaded_file,
                           show_warning>>
    /\ UNCHANGED <<history, show_result>>

\* app.py start_integrated_process, after the text area holds `text` and the
\* uploader holds `file`; then the script reruns up to the run block's guard
start_integrated_process(text, file) ==
    /\ user_input' = text
    /\ file_uploader' = file
    /\ IF is_processing
       THEN /\ show_warning' = TRUE
            /\ UNCHANGED <<run_rag, is_processing, current_result, uploaded_file,
                           show_warning_empty>>
       ELSE IF text # <<>> \/ file.present
       THEN /\ run_rag' = TRUE
            /\ is_processing' = TRUE
            /\ current_result' = NoResult
            /\ uploaded_file' = IF file.present THEN file ELSE uploaded_file
            /\ UNCHANGED <<show_warning, show_warning_empty>>
       ELSE /\ show_warning_empty' = TRUE
            /\ UNCHANGED <<run_rag, is_processing, current_result, uploaded_file,
                           show_warning>>
    /\ UNCHANGED <<history, show_result>>

\* app.py set_example_query
set_example_query(query) ==
    /\ user_input' = query
    /\ run_rag' = TRUE
    /\ is_processing' = TRUE
    /\ current_result' = NoResult
    /\ UNCHANGED <<show_warning, history, show_warning_empty, show_result,
                   uploaded_file, file_uploader>>

\* app.py load_history_result (history_index counts from 1 here)
load_history_result(history_index) ==
    /\ current_result' = history[history_index]
    /\ user_input' = history[history_index].question
    /\ show_result' = TRUE
    /\ UNCHANGED <<run_rag, is_processing, show_warning, history, show_warning_empty,
                   uploaded_file, file_uploader>>

\* s[:n]
first_n(s, n) == SubSeq(s, 1, IF Len(s) < n THEN Len(s) ELSE n)

\* the memo sign the label of a history button starts with
MEMO == "<U+1F4DD>"

\* app.py 442-450: the button of the sidebar for the i-th item, from 0, of
\* history[::-1]: its label and the index handed to load_history_result
history_button(h, i) ==
    LET item == h[Len(h) - i]
        actual_index == Len(h) - 1 - i
    IN  [label |-> <<MEMO, " ">> \o first_n(item.question, 30) \o <<".", ".", ".">>,
         args |-> actual_index]

\* app.py 441-450: the history buttons of the sidebar, from the top
history_buttons(h) == [p \in 1..Len(h) |-> history_button(h, p - 1)]

(***************************************************************************)
(* app.py: the widgets.  The run block is in the script that renders the   *)
(* widgets: the example and history buttons, the text area and the         *)
(* uploader are rendered enabled whatever the state (app.py 410-478), the  *)
(* run button with disabled = is_processing (app.py 485-491).  A widget    *)
(* event that arrives during a script run makes Streamlit stop that run at *)
(* its next st. command (the entry or the exit of st.spinner, app.py       *)
(* 510 / 581, st.error, st.rerun) by an exception that `except Exception`  *)
(* does not catch, run the callback and run the script again from the top: *)
(* the stopped run neither appends to the history nor resets the flags.    *)
(***************************************************************************)
Processing ==
    program = "app" /\ pc \in {"run", "extract", "rules", "dictionary", "qa", "fuse",
                                "generate", "except", "store"}

\* the local names of the script are those of one script run
ResetLocals ==
    /\ is_file_analysis' = FALSE
    /\ user_request' = <<>>
    /\ code_content' = <<>>
    /\ keywords_list' = <<>>
    /\ search_query' = <<>>
    /\ rules_context' = <<>>
    /\ dictionary_context' = <<>>
    /\ qa_context' = <<>>
    /\ all_context' = <<>>
    /\ final_answer' = PyNone

\* the last request submitted has neither completed nor ended in an error
Running == requests # <<>> /\ requests[Len(requests)] = "running"

\* the fates of the requests once a request is submitted: the one that was
\* under way, if any, is given up for it
GivenUp == Append([requests EXCEPT ![Len(requests)] = "abandoned"], "running")
Started == IF Running THEN GivenUp ELSE Append(requests, "running")
\* the fates of the requests once the run block is entered without a
\* submission: the request under way goes on
Resumed == IF Running THEN requests ELSE Append(requests, "running")

\* after a callback that found the script idle the script runs again from the
\* top: it enters the run block when the guard holds (app.py 499-501)
AfterCallback(fates, handed_in) ==
    /\ run_button_disabled' = is_processing'
    /\ IF run_block_entered(run_rag', user_input', uploaded_file')
       THEN /\ pc' = "run"
            /\ requests' = fates
            /\ calls' = <<>>
            /\ submission' = handed_in
       ELSE /\ pc' = "idle"
            /\ UNCHANGED <<requests, calls, submission>>
    /\ UNCHANGED <<unit, program, startup, locals, req, http_response>>

\* the script run under way is stopped and, the callback having run, the
\* script runs again up to the guard of the run block (app.py 499-501)
Rerun(fates, handed_in) ==
    /\ run_button_disabled' = is_processing'
    /\ IF run_block_entered(run_rag', user_input', uploaded_file')
       THEN pc' = "run" /\ requests' = fates /\ submission' = handed_in
       ELSE pc' = "idle" /\ requests' = requests /\ submission' = submission
    /\ calls' = <<>>
    /\ ResetLocals
    /\ UNCHANGED <<unit, program, startup, req, http_response>>

\* the user fills the text area and the uploader and presses the run button
ClickRun(typed, files, cap) ==
    /\ program = "app" /\ pc = "idle" /\ Len(requests) < cap
    /\ ~run_button_disabled
    /\ \E text \in typed, file \in files :
         /\ start_integrated_process(text, file)
         /\ AfterCallback(Started, Submission("run", text, file))

\* the user presses one of the example buttons of the sidebar
ClickExample(queries, cap) ==
    /\ program = "app" /\ pc = "idle" /\ Len(requests) < cap
    /\ \E query \in queries :
         /\ set_example_query(query)
         /\ AfterCallback(Started, Submission("example", query, NoFile))

\* the user commits another text in the text area (app.py 456-462), while the
\* script is idle or while a request is being processed: the widget value
\* goes to st.session_state.user_input and the script runs again
EditText(typed) ==
    /\ program = "app" /\ (pc = "idle" \/ Processing)
    /\ \E text \in typed : user_input' = text
    /\ user_input' # user_input
    /\ UNCHANGED <<run_rag, is_processing, show_warning, history, show_warning_empty,
                   current_result, show_result, uploaded_file, file_uploader>>
    /\ IF pc = "idle" THEN AfterCallback(Resumed, submission)
       ELSE Rerun(requests, submission)

\* the user puts a file in the uploader, or takes the file out of it (app.py
\* 468-478), while the script is idle or while a request is being processed:
\* the widget value changes and the script runs again; the session state is
\* as before
ChooseFile(files) ==
    /\ program = "app" /\ (pc = "idle" \/ Processing)
    /\ \E file \in files : file_uploader' = file
    /\ file_uploader' # file_uploader
    /\ UNCHANGED session
    /\ IF pc = "idle" THEN AfterCallback(Resumed, submission)
       ELSE Rerun(requests, submission)

\* the user presses the p-th history button of the sidebar, from the top,
\* while the script is idle or while a request is being processed
PressHistory(p) ==
    /\ program = "app" /\ (pc = "idle" \/ Processing)
    /\ p \in 1..Len(history)
    /\ load_history_result(history_buttons(history)[p].args + 1)
    /\ IF pc = "idle" THEN AfterCallback(Resumed, submission)
       ELSE Rerun(requests, submission)

\* a history button is pressed while the script is idle
ClickHistory == pc = "idle" /\ \E p \in 1..Len(history) : PressHistory(p)

\* an example button is pressed while a request is being processed
InterruptExample(queries, cap) ==
    /\ Processing /\ Len(requests) < cap
    /\ \E query \in queries :
         /\ set_example_query(query)
         /\ Rerun(GivenUp, Submission("example", query, NoFile))

\* a history button is pressed while a request is being processed: run_rag
\* is still true, so the run block is entered again, for the text the
\* callback has put in user_input
InterruptHistory == Processing /\ \E p \in 1..Len(history) : PressHistory(p)

\* the run button, pressed again before the browser shows it disabled, with
\* the text area and the uploader as they are: the callback finds
\* is_processing true
InterruptRun ==
    /\ Processing
    /\ start_integrated_process(user_input, file_uploader)
    /\ Rerun(requests, submission)

(***************************************************************************)
(* app.py: the run block (section 6), one step per stage.                  *)
(***************************************************************************)
\* the fate of the request under way is settled
Settle(fate) == requests' = [requests EXCEPT ![Len(requests)] = fate]

\* a variant of orchestrator_error that records the request in the history
orchestrator_error_recording ==
    /\ is_processing' = FALSE
    /\ run_rag' = FALSE
    /\ pc' = "idle"
    /\ Settle("errored")
    /\ ResetLocals
    /\ history' = Append(history, current_result)
    /\ UNCHANGED <<user_input, show_warning, show_warning_empty,
                   current_result, show_result>>

\* an exception reaches the except clause of the run block (app.py 572, 630):
\* the clause starts with st.error, where the script run can be stopped for a
\* widget event, and until then the session and the request are as they were.
\* The locals are those the run block had assigned when the exception was
\* raised
raised_to_except ==
    /\ pc' = "except"
    /\ UNCHANGED <<run_rag, user_input, is_processing, show_warning, history,
                   show_warning_empty, current_result, show_result>>
    /\ UNCHANGED requests

\* the except clauses of the run block after st.error (app.py 574-576 and
\* 632-634): the two flags reset, st.stop()
orchestrator_error ==
    /\ is_processing' = FALSE
    /\ run_rag' = FALSE
    /\ pc' = "idle"
    /\ Settle("errored")
    /\ ResetLocals
    /\ UNCHANGED <<user_input, show_warning, history, show_warning_empty,
                   current_result, show_result>>

\* file_to_analyze.read(): the bytes from the current position
read_raises_on_decode(file) == file.pos = 0 /\ ~file.valid
read_decoded(file) == IF file.pos = 0 THEN file.text ELSE <<>>

\* a variant of analysis_request_text_of that adds the text of the text area
analysis_request_text_with_input(name) ==
    <<"ANALYSIS_REQUEST: ">> \o name \o <<" file (">> \o file_type_of(name)
    \o <<") naming, terms, practice: ">> \o user_input

\* app.py 523
analysis_request_text_of(name) ==
    <<"ANALYSIS_REQUEST: ">> \o name \o <<" file (">> \o file_type_of(name)
    \o <<") naming, terms, practice">>

\* app.py 503-526: the mode decision and, in file-analysis mode, the read
RunBlock ==
    /\ program = "app" /\ pc = "run"
    /\ IF uploaded_file.present
       THEN /\ uploaded_file' = [uploaded_file EXCEPT !.pos = 1]
            /\ IF read_raises_on_decode(uploaded_file)
               THEN /\ raised_to_except
                    /\ is_file_analysis' = TRUE
                    /\ UNCHANGED <<user_request, code_content, keywords_list,
                                   search_query, rules_context, dictionary_context,
                                   qa_context, all_context, final_answer>>
               ELSE /\ is_file_analysis' = TRUE
                    /\ code_content' = read_decoded(uploaded_file)
                    /\ user_request' = analysis_request_text_of(uploaded_file.name)
                    /\ pc' = "extract"
                    /\ UNCHANGED <<keywords_list, search_query, rules_context,
                                   dictionary_context, qa_context, all_context,
                                   final_answer, requests>>
                    /\ UNCHANGED <<run_rag, user_input, is_processing, show_warning,
                                   history, show_warning_empty, current_result, show_result>>
       ELSE /\ is_file_analysis' = FALSE
            /\ user_request' = user_input
            /\ pc' = "extract"
            /\ UNCHANGED <<code_content, keywords_list, search_query, rules_context,
                           dictionary_context, qa_context, all_context, final_answer,
                           requests>>
            /\ UNCHANGED session
    /\ UNCHANGED <<submission, unit, program, startup, file_uploader, run_button_disabled, req,
                   http_response, calls>>

\* a variant of Extract that goes on to the fusion, past the searchers
Extract_then_fuse(outcomes) ==
    /\ program = "app" /\ pc = "extract"
    /\ \E outcome \in outcomes :
         LET r == extract_keywords_with_llm(user_request, outcome)
         IN  /\ keywords_list' = IF is_file_analysis THEN <<>> ELSE r[1]
             /\ search_query' = r[2]
             /\ calls' = calls \o extract_calls(user_request, outcome)
    /\ pc' = "fuse"
    /\ UNCHANGED <<is_file_analysis, user_request, code_content, rules_context,
                   dictionary_context, qa_context, all_context, final_answer>>
    /\ UNCHANGED <<submission, unit, program, startup, session, file_uploader,
                   run_button_disabled, req,
                   http_response, requests>>

\* app.py 526 / 583-585: the extractor
Extract(outcomes) ==
    /\ program = "app" /\ pc = "extract"
    /\ \E outcome \in outcomes :
         LET r == extract_keywords_with_llm(user_request, outcome)
         IN  /\ keywords_list' = IF is_file_analysis THEN <<>> ELSE r[1]
             /\ search_query' = r[2]
             /\ calls' = calls \o extract_calls(user_request, outcome)
    /\ pc' = "rules"
    /\ UNCHANGED <<is_file_analysis, user_request, code_content, rules_context,
                   dictionary_context, qa_context, all_context, final_answer>>
    /\ UNCHANGED <<submission, unit, program, startup, session, file_uploader,
                   run_button_disabled, req, http_response, requests>>

\* a searcher returned r: its value goes to the local, or its exception reaches
\* the except clause of the run block
SearcherReturns(r, value, others, next) ==
    IF r.raised
    THEN /\ raised_to_except
         /\ UNCHANGED locals
         /\ calls' = calls \o r.calls
         /\ UNCHANGED <<uploaded_file>>
    ELSE /\ value' = r.value
         /\ calls' = calls \o r.calls
         /\ pc' = next
         /\ UNCHANGED others
         /\ UNCHANGED <<is_file_analysis, user_request, code_content, keywords_list,
                        search_query, all_context, final_answer>>
         /\ UNCHANGED <<session, requests>>

\* app.py 529-531 / 588
SearchRules(embeds, founds) ==
    /\ program = "app" /\ pc = "rules"
    /\ \E embed_ok \in embeds, found \in founds :
         SearcherReturns(search_rules_for_context(user_request, search_query, embed_ok, found),
                         rules_context, <<dictionary_context, qa_context>>, "dictionary")
    /\ UNCHANGED <<submission, unit, program, startup, file_uploader, run_button_disabled, req,
                   http_response>>

\* app.py 532-534 / 589-591
SearchDictionary(embeds, founds) ==
    /\ program = "app" /\ pc = "dictionary"
    /\ \E embed_ok \in embeds, found \in founds :
         SearcherReturns(search_dictionary_for_terms(user_request, search_query, embed_ok, found),
                         dictionary_context, <<rules_context, qa_context>>, "qa")
    /\ UNCHANGED <<submission, unit, program, startup, file_uploader, run_button_disabled, req,
                   http_response>>

\* app.py 535 / 592
SearchQA(embeds, founds) ==
    /\ program = "app" /\ pc = "qa"
    /\ \E embed_ok \in embeds, found \in founds :
         SearcherReturns(search_qa_for_context(user_request, search_query, embed_ok, found),
                         qa_context, <<rules_context, dictionary_context>>, "fuse")
    /\ UNCHANGED <<submission, unit, program, startup, file_uploader, run_button_disabled, req,
                   http_response>>

\* a variant of fuse that puts the dictionary first
fuse_dictionary_first(rules, dictionary, qa) == dictionary \o rules \o qa

\* app.py 538 / 595: all_context = rules_context + dictionary_context + qa_context
fuse(rules, dictionary, qa) == rules \o dictionary \o qa

Fuse ==
    /\ program = "app" /\ pc = "fuse"
    /\ all_context' = fuse(rules_context, dictionary_context, qa_context)
    /\ pc' = "generate"
    /\ UNCHANGED <<is_file_analysis, user_request, code_content, keywords_list,
                   search_query, rules_context, dictionary_context, qa_context,
                   final_answer>>
    /\ UNCHANGED <<submission, unit, program, startup, session, file_uploader,
                   run_button_disabled, req, http_response, calls, requests>>

\* a variant of text_mode_generates without the short circuit
text_mode_always_generates(context) == TRUE

\* app.py 597-605: whether the text-question mode calls the generator
text_mode_generates(context) == context # <<>>

\* app.py 541-543: whether the file-analysis mode calls the analyzer
file_mode_analyzes(context) == TRUE

\* app.py 541-543 / 597-605: the answer
Generate(outcomes) ==
    /\ program = "app" /\ pc = "generate"
    /\ \E outcome \in outcomes :
         LET r == IF is_file_analysis
                  THEN IF file_mode_analyzes(all_context)
                       THEN analyze_code_with_llm(uploaded_file.name, code_content,
                                                  all_context, outcome)
                       ELSE Answered(PyStr(NO_CONTEXT_ANSWER), <<>>)
                  ELSE IF text_mode_generates(all_context)
                       THEN generate_response_with_llm(user_request, all_context, outcome)
                       ELSE Answered(PyStr(NO_CONTEXT_ANSWER), <<>>)
         IN  IF r.raised
             THEN /\ raised_to_except
                  /\ UNCHANGED locals
                  /\ calls' = calls \o r.calls
                  /\ UNCHANGED uploaded_file
             ELSE /\ final_answer' = r.value
                  /\ calls' = calls \o r.calls
                  /\ pc' = "store"
                  /\ UNCHANGED <<is_file_analysis, user_request, code_content,
                                 keywords_list, search_query, rules_context,
                                 dictionary_context, qa_context, all_context>>
                  /\ UNCHANGED <<session, requests>>
    /\ UNCHANGED <<submission, unit, program, startup, file_uploader, run_button_disabled, req,
                   http_response>>

\* a variant of context_field that shows the placeholder only when nothing at
\* all was retrieved
context_field_of_bundle(context, placeholder) ==
    IF all_context # <<>> THEN join(<<"\n">>, context) ELSE placeholder

\* "\n".join(context) if context else <placeholder>
context_field(context, placeholder) ==
    IF context # <<>> THEN join(<<"\n">>, context) ELSE placeholder

\* app.py 608-628
text_result_data ==
    [rules_context |-> context_field(rules_context, <<"NO_CONTEXT">>),
     dictionary_context |-> context_field(dictionary_context, <<"NO_CONTEXT">>),
     qa_context |-> context_field(qa_context, <<"NO_CONTEXT">>),
     question |-> user_request,
     answer |-> final_answer,
     metadata |-> [type |-> "text-question", query |-> search_query,
                   keywords |-> keywords_list, count |-> Len(all_context)]]

\* the start of the label of a file analysis (app.py 547), "[file analysis] " in
\* Korean
FILE_ANALYSIS ==
    <<"[", "<U+D30C>", "<U+C77C>", " ", "<U+BD84>", "<U+C11D>", "]", " ">>

\* app.py 546-570
file_result_data ==
    [rules_context |-> context_field(rules_context, <<"NO_RULES_CONTEXT">>),
     dictionary_context |-> context_field(dictionary_context, <<"NO_DICTIONARY_CONTEXT">>),
     qa_context |-> context_field(qa_context, <<"NO_QA_CONTEXT">>),
     question |-> FILE_ANALYSIS \o uploaded_file.name \o <<" ", "(">>
                  \o file_type_of(uploaded_file.name) \o <<")">>,
     answer |-> final_answer,
     metadata |-> [type |-> "file-analysis", query |-> search_query,
                   count |-> Len(all_context), file_size |-> encoded_len(code_content)]]

result_data == IF is_file_analysis THEN file_result_data ELSE text_result_data

\* app.py 572-576 / 630-634: the except clause of the run block runs to its
\* st.stop(); the file stays in the session
Except ==
    /\ program = "app" /\ pc = "except"
    /\ orchestrator_error
    /\ UNCHANGED <<uploaded_file, calls>>
    /\ UNCHANGED <<submission, unit, program, startup, file_uploader, run_button_disabled, req,
                   http_response>>

\* app.py 636-645: the record is built and appended, the flags are reset,
\* st.rerun() starts the next script run, which finds run_rag false
Store ==
    /\ program = "app" /\ pc = "store"
    /\ history' = Append(history, result_data)
    /\ current_result' = result_data
    /\ show_result' = TRUE
    /\ is_processing' = FALSE
    /\ run_rag' = FALSE
    /\ uploaded_file' = NoFile
    /\ run_button_disabled' = FALSE
    /\ pc' = "idle"
    /\ Settle("completed")
    /\ ResetLocals
    /\ UNCHANGED <<user_input, show_warning, show_warning_empty>>
    /\ UNCHANGED <<submission, unit, program, startup, file_uploader, req, http_response, calls>>

(***************************************************************************)
(* function_app.py: main, one step per stage.  A request body is "not_json"*)
(* (get_json raises), "not_object" (valid JSON without .get) or "object"   *)
(* with or without a request_text.                                         *)
(***************************************************************************)
Body(kind, has_text, text) ==
    [kind |-> kind, request_text |-> text, has_text |-> has_text, text_type |-> "str"]

\* a JSON object whose request_text is the number n and no string; the
\* request text is kept as str(n), which is what the f-strings make of it
NumberBody(n) ==
    [kind |-> "object", request_text |-> digits(n), has_text |-> TRUE, text_type |-> "number"]

\* not user_request, for the request_text of a body
fa_falsy(body) ==
    IF body.text_type = "number" THEN body.request_text = <<"0">>
    ELSE body.request_text = <<>>

\* function_app.py 263-269: whether the request is answered with status 400
fa_rejects(body) == body.kind # "object" \/ ~body.has_text \/ fa_falsy(body)

\* function_app.py 260-269
fa_Receive(bodies, cap) ==
    /\ program = "function_app" /\ pc = "idle" /\ Len(requests) < cap
    /\ \E body \in bodies :
         /\ req' = body
         /\ IF fa_rejects(body)
            THEN /\ http_response' = [status_code |-> 400]
                 /\ pc' = "idle"
                 /\ requests' = Append(requests, "rejected")
                 /\ UNCHANGED user_request
            ELSE /\ http_response' = [status_code |-> 0]
                 /\ user_request' = body.request_text
                 /\ pc' = "extract"
                 /\ requests' = Append(requests, "running")
    /\ calls' = <<>>
    /\ UNCHANGED <<is_file_analysis, code_content, keywords_list, search_query,
                   rules_context, dictionary_context, qa_context, all_context,
                   final_answer>>
    /\ UNCHANGED <<submission, unit, program, startup, session, file_uploader, run_button_disabled>>

\* function_app.py 272
fa_Extract(outcomes) ==
    /\ program = "function_app" /\ pc = "extract"
    /\ \E outcome \in outcomes :
         LET r == fa_extract_keywords_with_llm(user_request, outcome)
         IN  /\ keywords_list' = r[1]
             /\ search_query' = r[2]
             /\ calls' = calls \o fa_extract_calls(user_request, outcome)
    /\ pc' = "rules"
    /\ UNCHANGED <<is_file_analysis, user_request, code_content, rules_context,
                   dictionary_context, qa_context, all_context, final_answer>>
    /\ UNCHANGED <<submission, unit, program, startup, session, file_uploader,
                   run_button_disabled, req, http_response, requests>>

\* main has no except clause around the pipeline: an exception leaving a stage
\* leaves main, and the host answers with status 500
fa_Stage(r, value, others, next) ==
    IF r.raised
    THEN /\ http_response' = [status_code |-> 500]
         /\ pc' = "idle"
         /\ Settle("errored")
         /\ calls' = calls \o r.calls
         /\ ResetLocals
    ELSE /\ value' = r.value
         /\ calls' = calls \o r.calls
         /\ pc' = next
         /\ UNCHANGED others
         /\ UNCHANGED <<is_file_analysis, user_request, code_content, keywords_list,
                        search_query, all_context>>
         /\ UNCHANGED <<http_response, requests>>

\* function_app.py 275
fa_SearchRules(founds) ==
    /\ program = "function_app" /\ pc = "rules"
    /\ \E found \in founds :
         fa_Stage(fa_search_rules_for_context(search_query, found), rules_context,
                  <<dictionary_context, qa_context, final_answer>>, "dictionary")
    /\ UNCHANGED <<submission, unit, program, startup, session, file_uploader,
                   run_button_disabled, req>>

\* the keywords are pieces of the extractor's response, or, when the
\* extractor fell back (it logged an error), the request_text itself
fa_keywords_are_str ==
    ~(req.text_type = "number" /\ \E i \in 1..Len(calls) : calls[i] = Log("extract"))

\* function_app.py 278
fa_SearchDictionary ==
    /\ program = "function_app" /\ pc = "dictionary"
    /\ fa_Stage(fa_search_dictionary_for_terms(keywords_list, fa_keywords_are_str),
                dictionary_context,
                <<rules_context, qa_context, final_answer>>, "qa")
    /\ UNCHANGED <<submission, unit, program, startup, session, file_uploader,
                   run_button_disabled, req>>

\* function_app.py 281
fa_SearchQA(founds) ==
    /\ program = "function_app" /\ pc = "qa"
    /\ \E found \in founds :
         fa_Stage(fa_search_qa_for_context(search_query, found), qa_context,
                  <<rules_context, dictionary_context, final_answer>>, "fuse")
    /\ UNCHANGED <<submission, unit, program, startup, session, file_uploader,
                   run_button_disabled, req>>

\* function_app.py 284: all_context = rules_context + dictionary_context + qa_context
fa_fuse(rules, dictionary, qa) == rules \o dictionary \o qa

fa_Fuse ==
    /\ program = "function_app" /\ pc = "fuse"
    /\ all_context' = fa_fuse(rules_context, dictionary_context, qa_context)
    /\ pc' = "generate"
    /\ UNCHANGED <<is_file_analysis, user_request, code_content, keywords_list,
                   search_query, rules_context, dictionary_context, qa_context,
                   final_answer>>
    /\ UNCHANGED <<submission, unit, program, startup, session, file_uploader,
                   run_button_disabled, req, http_response, calls, requests>>

\* function_app.py 288: whether main calls the generator
fa_generates(context) == TRUE

\* function_app.py 288
fa_Generate(outcomes) ==
    /\ program = "function_app" /\ pc = "generate"
    /\ \E outcome \in outcomes :
         fa_Stage(IF fa_generates(all_context)
                  THEN fa_generate_response_with_llm(user_request, all_context, outcome)
                  ELSE Answered(PyStr(NO_CONTEXT_ANSWER), <<>>),
                  final_answer,
                  <<rules_context, dictionary_context, qa_context>>, "respond")
    /\ UNCHANGED <<submission, unit, program, startup, session, file_uploader,
                   run_button_disabled, req>>

\* function_app.py 291-301
fa_Respond ==
    /\ program = "function_app" /\ pc = "respond"
    /\ http_response' = [final_answer |-> final_answer,
                         status_code |-> 200,
                         search_query_used |-> search_query,
                         retrieved_context_count |-> Len(all_context)]
    /\ pc' = "idle"
    /\ Settle("completed")
    /\ ResetLocals
    /\ UNCHANGED <<submission, unit, program, startup, session, file_uploader,
                   run_button_disabled, req, calls>>

(***************************************************************************)
(* Inputs: what the user submits and what the external services answer.    *)
(***************************************************************************)
\* a typed request ("jae go" is the Korean word for stock, then a category)
TEXT_1 == <<"jae", "go", " ", "J", "a", "v", "a">>
\* a typed request that names no term of the dictionary
TEXT_2 == <<"J", "a", "v", "a">>

\* two of the example questions of the sidebar (app.py 411-436)
EXAMPLE_1 ==
    <<"J", "a", "v", "a", "<U+C5D0>", "<U+C11C>", " ", "'", "jae", "go", "'",
      "<U+B97C>", " ", "<U+B098>", "<U+D0C0>", "<U+B0B4>", "<U+B294>", " ", "<U+BCC0>",
      "<U+C218>", "<U+BA85>", "<U+C744>", " ", "<U+ADDC>", "<U+CE59>", "<U+C5D0>", " ",
      "<U+B9DE>", "<U+AC8C>", " ", "<U+B9CC>", "<U+B4E4>", "<U+C5B4>", "<U+C918>", ".">>
EXAMPLE_2 ==
    <<"J", "a", "v", "a", "<U+C5D0>", "<U+C11C>", " ", "<U+BC30>", "<U+C5F4>", " ",
      "<U+BCC0>", "<U+C218>", "<U+BA85>", "<U+C73C>", "<U+B85C>", " ", "u", "s", "e",
      "r", "_", "l", "i", "s", "t", "<U+B294>", " ", "<U+ADDC>", "<U+CE59>",
      "<U+C5D0>", " ", "<U+B9DE>", "<U+B098>", "<U+C694>", "?">>

JAVA_FILE == File(<<"S", ".", "j", "a", "v", "a">>, TRUE, <<"jae", "go", "\n", "u", "\r", "\n">>)
BAD_FILE == File(<<"b", "i", "n">>, FALSE, <<>>)

\* a completion response with two keywords
RESPONSE_1 == <<"jae", "go", ",", " ", "J", "a", "v", "a">>

ANSWER_1 == <<"<answer>">>

Found(hits) == [hits |-> hits, raises |-> FALSE, iter_raises |-> FALSE]
SearchRaises == [hits |-> <<>>, raises |-> TRUE, iter_raises |-> FALSE]
IterationRaises(hits) == [hits |-> hits, raises |-> FALSE, iter_raises |-> TRUE]

\* a hit without the fields `keys`
without(hit, keys) == [k \in DOMAIN hit \ keys |-> hit[k]]
\* a hit whose fields `keys` are null
nulled(hit, keys) == [k \in DOMAIN hit |-> IF k \in keys THEN PyNone ELSE hit[k]]

RULES_FIELDS == {"category", "type", "rule_kr", "example"}
DICTIONARY_FIELDS == {"korean", "english", "abbreviation", "description"}
QA_FIELDS == {"category", "question", "answer"}

RULES_HIT ==
    (SCORE :> PyFloat(1234)) @@
    [example |-> PyList(<<PyStr(<<"userList">>), PyStr(<<"itemCount">>)>>),
     category |-> PyStr(<<"Java">>), type |-> PyStr(<<"Variable">>),
     rule_kr |-> PyStr(<<"<camelCase kr>">>), rule_en |-> PyStr(<<"<camelCase>">>)]

DICTIONARY_HIT ==
    (SCORE :> PyFloat(2675)) @@
    [korean |-> PyStr(<<"jae", "go">>), english |-> PyStr(<<"Stock/Inventory">>),
     abbreviation |-> PyStr(<<"INV">>), description |-> PyStr(<<"<goods in store>">>)]

QA_HIT ==
    (SCORE :> PyFloat(496)) @@
    [category |-> PyStr(<<"Java">>), question |-> PyStr(<<"<question>">>),
     answer |-> PyStr(<<"<answer of the corpus>">>)]

\* a second hit of each collection: no score, one field absent
RULES_HIT_2 == without(RULES_HIT, {SCORE, "type"})
DICTIONARY_HIT_2 == without(DICTIONARY_HIT, {SCORE, "abbreviation"})
QA_HIT_2 == without(QA_HIT, {SCORE, "answer"})

\* a rules hit whose example is one string, and one whose example is a number
RULES_HIT_STR == [RULES_HIT EXCEPT !["example"] = PyStr(<<"a", "b">>)]
RULES_HIT_NUM == [RULES_HIT EXCEPT !["example"] = PyFloat(1)]
\* a rules hit whose example is an object, and one whose example is the empty object
RULES_HIT_DICT ==
    [RULES_HIT EXCEPT !["example"] =
        PyDict(<<"kb", "ka">>, [kb |-> PyStr(<<"w">>), ka |-> PyStr(<<"v">>)])]
RULES_HIT_NO_KEY == [RULES_HIT EXCEPT !["example"] = PyDict(<<>>, <<>>)]

\* a rules hit whose example list holds an item that is no string
RULES_HIT_BAD == [RULES_HIT EXCEPT !["example"] = PyList(<<PyStr(<<"userList">>), PyNone>>)]

\* sequences over S of length at most n
SeqUpTo(S, n) == UNION {[1..k -> S] : k \in 0..n}

\* the answers of a search call: it raises, or yields up to MaxHits hits, or
\* raises while the hits are iterated
Founds(hits) ==
    {SearchRaises, IterationRaises(<<>>)} \cup {Found(h) : h \in SeqUpTo(hits, MaxHits)}

ExtractOutcomes == {CompletionRaises, CompletionNone, CompletionText(RESPONSE_1)}
\* a response of blanks and a comma: no keyword in it
BLANK_RESPONSE == <<" ", ",", " ">>
GenerateOutcomes == {CompletionRaises, CompletionNone, CompletionText(ANSWER_1)}

Bodies ==
    {Body("not_json", FALSE, <<>>), Body("not_object", FALSE, <<>>),
     Body("object", FALSE, <<>>), Body("object", TRUE, <<>>), Body("object", TRUE, TEXT_1),
     Body("object", TRUE, TEXT_2)}

(***************************************************************************)
(* Spec: a session of up to MaxRequests requests (app.py) or a sequence of *)
(* HTTP requests (function_app.py), with one hit per collection at most.   *)
(* The user of the session waits for the request under way before using a  *)
(* widget again; SpecSession below has the widgets used at any time.       *)
(***************************************************************************)
Next ==
    \/ ClickRun({<<>>, TEXT_1}, {NoFile, JAVA_FILE, BAD_FILE}, MaxRequests)
    \/ ClickExample({EXAMPLE_1}, MaxRequests)
    \/ ClickHistory
    \/ (pc = "idle" /\ EditText({TEXT_1}))
    \/ (pc = "idle" /\ ChooseFile({NoFile, JAVA_FILE}))
    \/ RunBlock
    \/ Extract({CompletionText(RESPONSE_1)})
    \/ SearchRules({TRUE}, {SearchRaises, Found(<<RULES_HIT>>)})
    \/ SearchDictionary({TRUE}, {Found(<<>>)})
    \/ SearchQA({FALSE}, {Found(<<>>)})
    \/ Fuse
    \/ Generate(GenerateOutcomes)
    \/ Except
    \/ Store
    \/ fa_Receive(Bodies \cup {NumberBody(123)}, MaxRequests)
    \/ fa_Extract({CompletionRaises, CompletionText(RESPONSE_1)})
    \/ fa_SearchRules({SearchRaises, Found(<<RULES_HIT>>)})
    \/ fa_SearchDictionary
    \/ fa_SearchQA({Found(<<>>)})
    \/ fa_Fuse
    \/ fa_Generate(GenerateOutcomes)
    \/ fa_Respond

Spec == Init /\ [][Next]_vars

(***************************************************************************)
(* SpecRequest: one request, with up to MaxHits hits per collection; or    *)
(* one function of the pipeline applied on its own (see Apply below).      *)
(***************************************************************************)
NextRequest ==
    \/ ClickRun({TEXT_1}, {NoFile, JAVA_FILE, BAD_FILE}, 1)
    \/ RunBlock
    \/ Extract(ExtractOutcomes \cup {CompletionText(BLANK_RESPONSE)})
    \/ SearchRules(BOOLEAN, Founds({RULES_HIT, RULES_HIT_2, RULES_HIT_BAD}))
    \/ SearchDictionary(BOOLEAN, Founds({DICTIONARY_HIT, DICTIONARY_HIT_2}))
    \/ SearchQA(BOOLEAN, Founds({QA_HIT}))
    \/ Fuse
    \/ Generate(GenerateOutcomes)
    \/ Except
    \/ Store
    \/ fa_Receive(Bodies, 1)
    \/ fa_Extract(ExtractOutcomes)
    \/ fa_SearchRules(Founds({RULES_HIT, RULES_HIT_2}))
    \/ fa_SearchDictionary
    \/ fa_SearchQA(Founds({QA_HIT, QA_HIT_2}))
    \/ fa_Fuse
    \/ fa_Generate(GenerateOutcomes)
    \/ fa_Respond

(***************************************************************************)
(* src/index/add_vector_*.py: the three ingestion scripts.  The data file  *)
(* is a list of items; each script builds the text to embed of an item,    *)
(* asks for its embedding and puts the item, with its id as a string and   *)
(* its vector, in the batch it uploads.  oks[i] tells whether the          *)
(* embedding call made for the i-th item returns a vector.  A text is a    *)
(* sequence of characters here.                                            *)
(***************************************************************************)
\* str(value)
str_of(v) == fmt(v)

\* what upload_data_with_vectors does: the calls made, the batch given to
\* search_client.upload_documents (empty when there is no upload), and
\* whether an exception left the function
Ingested(batch, made, raised) == [calls |-> made, value |-> batch, raised |-> raised]

\* outcomes of search_client.upload_documents: it raises, or it returns a
\* list of so many results
UploadRaises == [raises |-> TRUE, results |-> 0]
UploadReturns(n) == [raises |-> FALSE, results |-> n]

\* the call search_client.upload_documents(documents=batch), made for a batch
\* that is not empty
upload_calls(who, batch) ==
    IF batch = <<>> THEN <<>> ELSE <<Call("upload", who, <<>>, batch, <<>>, 0)>>

\* doc["id"] = ...; doc["vector_embedding"] = vector
with_id_and_vector(doc, id, vector) ==
    set_item(set_item(doc, "id", PyStr(id)), "vector_embedding", PyList(vector))

\* not text or len(text.strip()) < 5
too_short(text) == text = <<>> \/ Len(strip(text)) < 5

\* add_vector_data_dictionary.py generate_embedding (None is the empty vector)
dd_generate_embedding(text, ok) ==
    IF too_short(text) THEN Returned(<<>>, <<>>)
    ELSE Returned(IF ok THEN VECTOR ELSE <<>>,
                  <<EmbedCall("dictionary", text)>>
                  \o (IF ok THEN <<>> ELSE <<Log("embedding")>>))

\* add_vector_data_dictionary.py 89-94
dd_text_to_embed(doc) ==
    strip(fmt(get(doc, "korean", PyStr(<<>>))) \o <<" ">>
          \o fmt(get(doc, "english", PyStr(<<>>))) \o <<" ">>
          \o fmt(get(doc, "abbreviation", PyStr(<<>>))) \o <<" ">>
          \o fmt(get(doc, "description", PyStr(<<>>))))

\* add_vector_data_dictionary.py 112-127: the batch, when it is not empty,
\* is uploaded in a try; an exception of upload_documents is logged and does
\* not leave the function
dd_upload(batch, made, upload) ==
    Ingested(batch,
             made \o upload_calls("dictionary", batch)
                  \o (IF batch # <<>> /\ upload.raises THEN <<Log("upload")>> ELSE <<>>),
             FALSE)

\* add_vector_data_dictionary.py 79-110: the loop from item idx (from 0) on
RECURSIVE dd_loop(_, _, _, _, _, _)
dd_loop(data, idx, oks, batch, made, upload) ==
    IF idx >= Len(data) THEN dd_upload(batch, made, upload)
    ELSE LET doc == data[idx + 1]
         IN  IF doc.t # "dict" THEN dd_loop(data, idx + 1, oks, batch, made, upload)
             ELSE LET r == dd_generate_embedding(dd_text_to_embed(doc.v), oks[idx + 1])
                      id == str_of(get(doc.v, "id", PyInt(idx + 1)))
                  IN  IF r.value # <<>>
                      THEN dd_loop(data, idx + 1, oks,
                                   Append(batch, with_id_and_vector(doc, id, r.value)),
                                   made \o r.calls, upload)
                      ELSE dd_loop(data, idx + 1, oks, batch, made \o r.calls, upload)

dd_upload_data_with_vectors(data, oks, upload) == dd_loop(data, 0, oks, <<>>, <<>>, upload)

\* add_vector_naming_convention_qa.py generate_embedding
qa_generate_embedding(text, ok) ==
    IF too_short(text) THEN Returned(<<>>, <<>>)
    ELSE Returned(IF ok THEN VECTOR ELSE <<>>,
                  <<EmbedCall("qa", text)>> \o (IF ok THEN <<>> ELSE <<Log("embedding")>>))

\* add_vector_naming_convention_qa.py 88-92: the three fields after their
\* labels (question, answer, category in Korean)
qa_text_to_embed(doc) ==
    strip(<<"<U+C9C8>", "<U+BB38>", ":", " ">> \o fmt(get(doc, "question", PyStr(<<>>)))
          \o <<".", " ", "<U+B2F5>", "<U+BCC0>", ":", " ">>
          \o fmt(get(doc, "answer", PyStr(<<>>)))
          \o <<".", " ", "<U+CE74>", "<U+D14C>", "go", "<U+B9AC>", ":", " ">>
          \o fmt(get(doc, "category", PyStr(<<>>))))

\* add_vector_naming_convention_qa.py 109-122
qa_upload(batch, made, upload) ==
    Ingested(batch,
             made \o upload_calls("qa", batch)
                  \o (IF batch # <<>> /\ upload.raises THEN <<Log("upload")>> ELSE <<>>),
             FALSE)

\* add_vector_naming_convention_qa.py 78-107
RECURSIVE qa_loop(_, _, _, _, _, _)
qa_loop(data, idx, oks, batch, made, upload) ==
    IF idx >= Len(data) THEN qa_upload(batch, made, upload)
    ELSE LET doc == data[idx + 1]
         IN  IF doc.t # "dict" THEN qa_loop(data, idx + 1, oks, batch, made, upload)
             ELSE LET r == qa_generate_embedding(qa_text_to_embed(doc.v), oks[idx + 1])
                      id == str_of(get(doc.v, "id", PyInt(idx + 1)))
                  IN  IF r.value # <<>>
                      THEN qa_loop(data, idx + 1, oks,
                                   Append(batch, with_id_and_vector(doc, id, r.value)),
                                   made \o r.calls, upload)
                      ELSE qa_loop(data, idx + 1, oks, batch, made \o r.calls, upload)

qa_upload_data_with_vectors(data, oks, upload) == qa_loop(data, 0, oks, <<>>, <<>>, upload)

\* add_vector_naming_rules.py generate_embedding: no test of the text
nr_generate_embedding(text, ok) ==
    Returned(IF ok THEN VECTOR ELSE <<>>,
             <<EmbedCall("rules", text)>> \o (IF ok THEN <<>> ELSE <<Log("embedding")>>))

\* add_vector_naming_rules.py 69
nr_text_to_embed(doc) ==
    fmt(get(doc, "rule_kr", PyStr(<<>>))) \o <<" ">>
    \o fmt(get(doc, "rule_en", PyStr(<<>>))) \o <<" ">>
    \o join(<<" ">>, joined_items(get(doc, "example", PyList(<<>>))))

\* add_vector_naming_rules.py 87-98: the batch, when it is not empty, is
\* uploaded in a try; an exception of upload_documents, and the IndexError of
\* results[0] on an empty list of results, are logged and do not leave the
\* function
nr_upload(batch, made, upload) ==
    Ingested(batch,
             made \o upload_calls("rules", batch)
                  \o (IF batch # <<>> /\ (upload.raises \/ upload.results = 0)
                      THEN <<Log("upload")>> ELSE <<>>),
             FALSE)

\* add_vector_naming_rules.py 67-85: an item that is no dict, an example that
\* cannot be joined and an embedded item without "id" raise out of the loop
RECURSIVE nr_loop(_, _, _, _, _, _)
nr_loop(data, idx, oks, batch, made, upload) ==
    IF idx >= Len(data) THEN nr_upload(batch, made, upload)
    ELSE LET doc == data[idx + 1]
         IN  IF doc.t # "dict" THEN Ingested(<<>>, made, TRUE)
             ELSE IF join_raises(get(doc.v, "example", PyList(<<>>)))
             THEN Ingested(<<>>, made, TRUE)
             ELSE LET r == nr_generate_embedding(nr_text_to_embed(doc.v), oks[idx + 1])
                  IN  IF r.value = <<>>
                      THEN nr_loop(data, idx + 1, oks, batch, made \o r.calls, upload)
                      ELSE IF "id" \notin DOMAIN doc.v
                      THEN Ingested(<<>>, made \o r.calls, TRUE)
                      ELSE LET with_vector ==
                                   with_id_and_vector(doc, str_of(doc.v["id"]), r.value)
                           IN  nr_loop(data, idx + 1, oks,
                                       Append(batch,
                                              IF "id_num" \in DOMAIN doc.v
                                              THEN del_item(with_vector, "id_num")
                                              ELSE with_vector),
                                       made \o r.calls, upload)

nr_upload_data_with_vectors(data, oks, upload) == nr_loop(data, 0, oks, <<>>, <<>>, upload)

(***************************************************************************)
(* One function of the pipeline applied to arguments drawn from            *)
(* a bounded set: the extractors on every response of up to MaxTokens      *)
(* comma-separated pieces, the searchers on hits with every combination of *)
(* absent and null fields.                                                 *)
(***************************************************************************)
Arg(fn, request, query, embed_ok, found, outcome) ==
    [request |-> request, outcome |-> outcome, embed_ok |-> embed_ok, query |-> query,
     found |-> found, fn |-> fn]

\* the pieces a response is made of, between commas
RawTokens == {<<>>, <<" ">>, <<"a">>, <<" ", "b", " ", "c", " ">>}

Responses == {join(<<",">>, ts) : ts \in UNION {[1..k -> RawTokens] : k \in 1..MaxTokens}}

\* responses with the other characters str.strip() removes around a keyword
WHITESPACE_RESPONSES ==
    {<<"\t", "x", "\t">>, <<"\r", "x", "\r">>, <<"\f", "x", "\f">>,
     <<"<U+3000>", "x", "<U+000B>", ",", "<U+00A0>", ",", "y", " ", "z", "<U+0085>">>}

UnitOutcomes ==
    {CompletionRaises, CompletionNone}
    \cup {CompletionText(r) : r \in Responses \cup WHITESPACE_RESPONSES}

\* every way for the fields `fields` of `hit` to be present, absent or null,
\* and the ways for the score to be absent, null or zero
Shapes(hit, fields) ==
    {nulled(without(hit, A), N) : A \in SUBSET fields, N \in SUBSET fields}
    \cup {without(hit, {SCORE}), nulled(hit, {SCORE}),
          [hit EXCEPT ![SCORE] = PyFloat(0)]}

RulesShapes ==
    Shapes(RULES_HIT, RULES_FIELDS)
    \cup {RULES_HIT_BAD, RULES_HIT_STR, RULES_HIT_NUM, RULES_HIT_DICT, RULES_HIT_NO_KEY,
          [RULES_HIT EXCEPT !["example"] = PyList(<<>>)],
          [RULES_HIT EXCEPT !["example"] = PyStr(<<>>)]}

QUERY_1 == <<"jae", "go", " ", "O", "R", " ", "J", "a", "v", "a">>

\* the hits a collection may yield when its searcher is applied on its own
ShapesOf(fn) ==
    CASE fn \in {"search_rules_for_context", "fa_search_rules_for_context"} -> RulesShapes
      [] fn = "search_dictionary_for_terms" -> Shapes(DICTIONARY_HIT, DICTIONARY_FIELDS)
      [] OTHER -> Shapes(QA_HIT, QA_FIELDS)

\* the places of a line in a file, from 0: the first lines, and the lines
\* around those whose number takes one more digit
LINE_INDEXES == {0, 8, 9, 98, 99, 998, 999, 9998, 9999, 10000, 99999}

\* two different hits of the collection of a searcher, in either order
TwoHits(fn) ==
    CASE fn \in {"search_rules_for_context", "fa_search_rules_for_context"} ->
            {<<RULES_HIT, RULES_HIT_2>>, <<RULES_HIT_2, RULES_HIT>>}
      [] fn = "search_dictionary_for_terms" ->
            {<<DICTIONARY_HIT, DICTIONARY_HIT_2>>, <<DICTIONARY_HIT_2, DICTIONARY_HIT>>}
      [] OTHER -> {<<QA_HIT, QA_HIT_2>>, <<QA_HIT_2, QA_HIT>>}

\* searches that fail after a first hit was formatted: the iteration raises
\* after two hits, or the second hit cannot be formatted
LateFailures(fn) ==
    {IterationRaises(l) : l \in TwoHits(fn)}
    \cup (IF fn = "search_rules_for_context"
          THEN {Found(<<RULES_HIT, RULES_HIT_BAD>>), Found(<<RULES_HIT_2, RULES_HIT_BAD>>)}
          ELSE {})

Extractors == {"extract_keywords_with_llm", "fa_extract_keywords_with_llm"}
Searchers ==
    {"search_rules_for_context", "search_dictionary_for_terms", "search_qa_for_context",
     "fa_search_rules_for_context", "fa_search_qa_for_context"}

InitUnit ==
    /\ Start({"unit"})
    /\ unit_ret = NoArg
    /\ \/ \E fn \in Extractors, o \in UnitOutcomes :
            unit_arg = Arg(fn, TEXT_1, <<>>, TRUE, SearchRaises, o)
       \/ \E fn \in Searchers, e \in BOOLEAN :
            unit_arg = Arg(fn, TEXT_1, QUERY_1, e, SearchRaises, CompletionNone)
       \/ \E fn \in Searchers, e \in BOOLEAN, k \in 0..MaxUnitHits, broken \in BOOLEAN :
            \E l \in [1..k -> ShapesOf(fn)] :
                unit_arg = Arg(fn, TEXT_1, QUERY_1, e,
                               IF broken THEN IterationRaises(l) ELSE Found(l),
                               CompletionNone)
       \/ \E fn \in Searchers :
            \E l \in TwoHits(fn) :
                unit_arg = Arg(fn, TEXT_1, QUERY_1, TRUE, Found(l), CompletionNone)
       \/ \E fn \in Searchers, e \in BOOLEAN :
            \E f \in LateFailures(fn) :
                unit_arg = Arg(fn, TEXT_1, QUERY_1, e, f, CompletionNone)
       \/ \E k \in 0..MaxCode :
            \E code \in [1..k -> {"x", "\n", "\r"}] :
                unit_arg = [code |-> code, fn |-> "numbered"]
       \/ \E c \in LineBoundaries \cup {"<U+001F>", "\t"} :
            unit_arg = [code |-> <<"x", c, "y">>, fn |-> "numbered"]
       \/ \E i \in LINE_INDEXES :
            unit_arg = [line |-> <<"x">>, fn |-> "numbered_line", index |-> i]

(***************************************************************************)
(* An ingestion script run on a data file of up to MaxDocs items: items    *)
(* with a text long enough, too short or empty, with fields that are null, *)
(* a number or a list, with or without an id, and an item that is no       *)
(* object; every embedding call may fail, and the upload may raise or      *)
(* return no result.                                                       *)
(***************************************************************************)
IngestArg(fn, data, oks, upload) ==
    [fn |-> fn, upload |-> upload, data |-> data, oks |-> oks]

\* a document without id, with the ids 1 and 2 and with the id "2"
WithIds(doc) ==
    {doc, set_item(doc, "id", PyInt(1)), set_item(doc, "id", PyInt(2)),
     set_item(doc, "id", PyStr(<<"2">>))}

DD_LONG ==
    PyDict(<<"korean", "english">>,
           [korean |-> PyStr(<<"a", "b", "c">>), english |-> PyStr(<<"d", "e">>)])
DD_SHORT == PyDict(<<"korean">>, [korean |-> PyStr(<<"a", "b">>)])
DD_EMPTY == PyDict(<<"description">>, [description |-> PyStr(<<>>)])
\* a null field is embedded as the text None: 4 characters on its own, 9 with
\* a second one
DD_NULL == PyDict(<<"korean">>, [korean |-> PyNone])
DD_NULLS == PyDict(<<"korean", "english">>, [korean |-> PyNone, english |-> PyNone])
\* a list of one str and a number are embedded as repr() writes them
DD_LIST == PyDict(<<"korean">>, [korean |-> PyList(<<PyStr(<<"a">>)>>)])
DD_NUMBER == PyDict(<<"korean">>, [korean |-> PyFloat(1500)])
QA_LONG ==
    PyDict(<<"question", "answer">>,
           [question |-> PyStr(<<"a", "b", "c">>), answer |-> PyStr(<<"d", "e">>)])
QA_EMPTY == PyDict(<<"question">>, [question |-> PyStr(<<>>)])
NR_LONG ==
    PyDict(<<"id_num", "rule_kr", "rule_en", "example">>,
           [example |-> PyList(<<PyStr(<<"x">>)>>), rule_kr |-> PyStr(<<"a", "b", "c">>),
            rule_en |-> PyStr(<<"d", "e">>), id_num |-> PyInt(7)])
NR_SHORT == PyDict(<<"rule_kr">>, [rule_kr |-> PyStr(<<"a">>)])
NR_EMPTY == PyDict(<<"rule_kr">>, [rule_kr |-> PyStr(<<>>)])
\* an example that is a dict of two keys, inserted in the order b, a
NR_KEYS ==
    PyDict(<<"id", "example">>,
           [example |-> PyDict(<<"b", "a">>, [a |-> PyInt(1), b |-> PyInt(2)]),
            id |-> PyInt(3)])

Ingestions ==
    {"dd_upload_data_with_vectors", "qa_upload_data_with_vectors",
     "nr_upload_data_with_vectors"}

\* the items the data file of a script may hold
ItemsOf(fn) ==
    {PyStr(<<"x">>)} \cup
    CASE fn = "dd_upload_data_with_vectors" ->
            WithIds(DD_LONG) \cup {DD_SHORT, set_item(DD_SHORT, "id", PyInt(1)), DD_EMPTY,
                                   DD_NULL, DD_NULLS, DD_LIST, DD_NUMBER}
      [] fn = "qa_upload_data_with_vectors" ->
            WithIds(QA_LONG) \cup WithIds(QA_EMPTY)
      [] OTHER ->
            WithIds(NR_LONG) \cup WithIds(NR_SHORT)
            \cup {NR_EMPTY, set_item(NR_EMPTY, "id", PyInt(1)), NR_KEYS}

\* what upload_documents may do
UploadOutcomes == {UploadRaises, UploadReturns(0), UploadReturns(1)}

InitIngest ==
    /\ Start({"unit"})
    /\ unit_ret = NoArg
    /\ \E fn \in Ingestions, k \in 0..MaxDocs :
         \E data \in [1..k -> ItemsOf(fn)], oks \in [1..k -> BOOLEAN],
            upload \in UploadOutcomes :
            unit_arg = IngestArg(fn, data, oks, upload)

\* the function unit_arg names, applied to the arguments it holds
applied(a) ==
    CASE a.fn = "extract_keywords_with_llm" ->
            extract_keywords_with_llm(a.request, a.outcome)
      [] a.fn = "fa_extract_keywords_with_llm" ->
            fa_extract_keywords_with_llm(a.request, a.outcome)
      [] a.fn = "search_rules_for_context" ->
            search_rules_for_context(a.request, a.query, a.embed_ok, a.found)
      [] a.fn = "search_dictionary_for_terms" ->
            search_dictionary_for_terms(a.request, a.query, a.embed_ok, a.found)
      [] a.fn = "search_qa_for_context" ->
            search_qa_for_context(a.request, a.query, a.embed_ok, a.found)
      [] a.fn = "fa_search_rules_for_context" ->
            fa_search_rules_for_context(a.query, a.found)
      [] a.fn = "fa_search_qa_for_context" ->
            fa_search_qa_for_context(a.query, a.found)
      [] a.fn = "numbered" -> [value |-> numbered(a.code)]
      [] a.fn = "numbered_line" -> [value |-> numbered_line(a.index, a.line)]
      [] a.fn = "dd_upload_data_with_vectors" -> dd_upload_data_with_vectors(a.data, a.oks, a.upload)
      [] a.fn = "qa_upload_data_with_vectors" -> qa_upload_data_with_vectors(a.data, a.oks, a.upload)
      [] a.fn = "nr_upload_data_with_vectors" -> nr_upload_data_with_vectors(a.data, a.oks, a.upload)

Apply ==
    /\ program = "unit" /\ pc = "idle"
    /\ unit_ret' = applied(unit_arg)
    /\ pc' = "applied"
    /\ UNCHANGED <<unit_arg, submission, program, startup, session, file_uploader,
                   run_button_disabled, locals, req, http_response,
                   calls, requests>>

SpecRequest == (Init \/ InitUnit) /\ [][NextRequest \/ Apply]_vars

\* one run of an ingestion script
SpecIngest == InitIngest /\ [][Apply]_vars

(***************************************************************************)
(* What the properties below read from a state.                            *)
(***************************************************************************)
AppSearchers ==
    {"search_rules_for_context", "search_dictionary_for_terms", "search_qa_for_context"}
Collections == {"rules", "dictionary", "qa"}

\* the calls of `log` to service svc made by who
CallsIn(log, svc, who) == SelectSeq(log, LAMBDA c : c.svc = svc /\ c.who = who)
\* the calls of `log` to service svc
CallsTo(log, svc) == SelectSeq(log, LAMBDA c : c.svc = svc)
\* who logged an error
Logged(who) == \E i \in 1..Len(calls) : calls[i].svc = "log" /\ calls[i].who = who

ContextOf(who) ==
    CASE who = "rules" -> rules_context
      [] who = "dictionary" -> dictionary_context
      [] OTHER -> qa_context

UnitApplied(fns) == program = "unit" /\ pc = "applied" /\ unit_arg.fn \in fns

\* a rules hit whose example cannot be joined: a list with an item that is no
\* string, or a number other than 0
BadExample(hit) ==
    /\ "example" \in DOMAIN hit
    /\ \/ /\ hit["example"].t = "list"
          /\ \E i \in 1..Len(hit["example"].v) : hit["example"].v[i].t # "str"
       \/ /\ hit["example"].t \in {"float", "int"}
          /\ hit["example"].v # 0

\* the search of an app.py searcher fails: search() raises, the iteration raises,
\* or the formatting of a hit raises
SearchFails(a) ==
    \/ a.found.raises
    \/ a.found.iter_raises
    \/ /\ a.fn = "search_rules_for_context"
       /\ \E i \in 1..Len(a.found.hits) : BadExample(a.found.hits[i])

\* C1, as amended: a searcher of app.py never raises to the run block; when
\* its search call, the iteration or the formatting of a hit raises it returns
\* the empty list (an embedding failure alone does not empty its result); and
\* in the run block all three searchers are called whatever the others did,
\* a searcher that logged an error contributes nothing, and the bundle and the
\* context sent to the generator are made of the three results
C1_SearcherFailureContained ==
    /\ UnitApplied(AppSearchers) =>
         /\ ~unit_ret.raised
         /\ SearchFails(unit_arg) => unit_ret.value = <<>>
    /\ (program = "app" /\ pc \in {"fuse", "generate", "store"}) =>
         /\ Running
         /\ \A who \in Collections :
              /\ Len(CallsIn(calls, "search", who)) = 1
              /\ Logged(who) => ContextOf(who) = <<>>
    /\ (program = "app" /\ pc \in {"generate", "store"}) =>
         all_context = rules_context \o dictionary_context \o qa_context
    /\ (program = "app" /\ pc = "store") =>
         \A i \in 1..Len(calls) :
            calls[i].who \in {"generate", "analyze"} /\ calls[i].svc = "complete" =>
               calls[i].context
                 = join(<<"\n">>, rules_context \o dictionary_context \o qa_context)

\* C1 witness: the rules search failed, the dictionary and Q&A searchers ran
\* and their snippets are the bundle of the record about to be stored
C1_Witness ==
    /\ program = "app" /\ pc = "store"
    /\ Logged("rules")
    /\ dictionary_context # <<>> /\ qa_context # <<>>
    /\ all_context = dictionary_context \o qa_context

\* C1 as stated: also when only the embedding call raises the searcher returns
\* the empty list
C1_Original ==
    /\ C1_SearcherFailureContained
    /\ UnitApplied(AppSearchers) =>
         (~unit_arg.embed_ok => unit_ret.value = <<>>)

\* C2: when the embedding fails a searcher of app.py still issues its one search
\* call, with the lexical query and no vector query, raises nothing, and
\* returns what the same search returns with an embedding: one snippet per hit,
\* or the empty list; in the run block the search call that follows a failed
\* embedding carries the extractor's query and no vector query
C2_LexicalOnlyDegrade ==
    /\ (UnitApplied(AppSearchers) /\ ~unit_arg.embed_ok) =>
         LET searches == CallsTo(unit_ret.calls, "search")
         IN  /\ ~unit_ret.raised
             /\ Len(searches) = 1
             /\ searches[1].text = unit_arg.query
             /\ searches[1].vector_queries = <<>>
             /\ unit_ret.value = applied([unit_arg EXCEPT !.embed_ok = TRUE]).value
             /\ IF SearchFails(unit_arg)
                THEN unit_ret.value = <<>>
                ELSE Len(unit_ret.value) = Len(unit_arg.found.hits)
    /\ (program = "app" /\ pc \notin {"idle", "run"}) =>
         \A i \in 1..Len(calls) :
            (calls[i].svc = "log" /\ calls[i].who = "embedding") =>
               /\ i > 1 /\ calls[i - 1].svc = "embed"
               /\ i < Len(calls) /\ calls[i + 1].svc = "search"
               /\ calls[i + 1].who = calls[i - 1].who
               /\ calls[i + 1].text = search_query
               /\ calls[i + 1].vector_queries = <<>>

\* C2 witness: the embedding failed and the dictionary searcher returned snippets
C2_Witness ==
    /\ UnitApplied({"search_dictionary_for_terms"})
    /\ ~unit_arg.embed_ok
    /\ unit_ret.value # <<>>

\* C3: in the text mode, the file-analysis mode and the HTTP entry point the
\* bundle is rules ++ dictionary ++ Q&A, and that bundle, one snippet per
\* line, is the context sent to the generator or the analyzer
C3_FusionIsConcatenation ==
    /\ (program \in {"app", "function_app"} /\ pc \in {"generate", "store", "respond"}) =>
         /\ all_context = rules_context \o dictionary_context \o qa_context
         /\ Len(all_context)
              = Len(rules_context) + Len(dictionary_context) + Len(qa_context)
    /\ (program \in {"app", "function_app"} /\ pc \in {"store", "respond"}) =>
         \A i \in 1..Len(calls) :
            calls[i].who \in {"generate", "analyze"} /\ calls[i].svc = "complete" =>
               calls[i].context
                 = join(<<"\n">>, rules_context \o dictionary_context \o qa_context)

\* C3 witness: a file analysis whose three searchers returned two snippets each
C3_Witness ==
    /\ program = "app" /\ pc = "store" /\ is_file_analysis
    /\ Len(rules_context) = 2 /\ rules_context[1] # rules_context[2]
    /\ Len(dictionary_context) = 2 /\ Len(qa_context) = 2
    /\ Len(all_context) = 6

\* C4: in the text mode, when the three searchers returned nothing the
\* generator is not called and the answer of the record is the fixed message;
\* otherwise the generator is called exactly once
C4_EmptyContextShortCircuit ==
    /\ (program = "app" /\ pc = "store" /\ ~is_file_analysis) =>
         IF rules_context = <<>> /\ dictionary_context = <<>> /\ qa_context = <<>>
         THEN /\ Len(CallsIn(calls, "complete", "generate")) = 0
              /\ final_answer = PyStr(NO_CONTEXT_ANSWER)
              /\ result_data.answer = PyStr(NO_CONTEXT_ANSWER)
         ELSE Len(CallsIn(calls, "complete", "generate")) = 1
    /\ program = "app" =>
         \A i \in 1..Len(history) :
            history[i].metadata.type = "text-question" =>
               /\ history[i].metadata.count = 0 => history[i].answer = PyStr(NO_CONTEXT_ANSWER)
               /\ Len(CallsIn(calls, "complete", "generate"))
                    = IF history[i].metadata.count = 0 THEN 0 ELSE 1

\* C4 witness: a text question for which nothing was retrieved is in the history
\* with the fixed answer
C4_Witness ==
    /\ program = "app" /\ Len(history) = 1
    /\ history[1].metadata.type = "text-question"
    /\ history[1].metadata.count = 0
    /\ history[1].answer = PyStr(NO_CONTEXT_ANSWER)

\* C5 as stated: in the file-analysis mode and in the HTTP entry point, when the
\* three context lists are empty no completion call is made for the answer and
\* the answer is the fixed message
C5_Original ==
    ( /\ \/ program = "app" /\ pc = "store" /\ is_file_analysis
         \/ program = "function_app" /\ pc = "respond"
      /\ rules_context = <<>> /\ dictionary_context = <<>> /\ qa_context = <<>> ) =>
         /\ Len(CallsIn(calls, "complete", "generate")) = 0
         /\ Len(CallsIn(calls, "complete", "analyze")) = 0
         /\ final_answer = PyStr(NO_CONTEXT_ANSWER)

\* C6: when the completion call of the extractor raises, or its response cannot
\* be parsed, extract_keywords_with_llm(X) returns ([X], X) in app.py and in
\* function_app.py; the request is not ended by it, and every search call of
\* the pipeline that follows carries X as its lexical query
C6_KeywordFallback ==
    /\ (UnitApplied(Extractors) /\ unit_arg.outcome.kind # "text") =>
         unit_ret = << <<unit_arg.request>>, unit_arg.request >>
    /\ ( /\ program \in {"app", "function_app"}
         /\ pc \in {"rules", "dictionary", "qa", "fuse", "generate"}
         /\ Logged("extract") ) =>
         /\ Running
         /\ search_query = user_request
         /\ program = "function_app" => keywords_list = <<user_request>>
         /\ \A i \in 1..Len(calls) :
              calls[i].svc = "search" => calls[i].text = user_request
         /\ pc \in {"fuse", "generate"} =>
              Len(CallsTo(calls, "search")) = IF program = "app" THEN 3 ELSE 2

\* C6 witness: the extractor fell back and the three searchers of app.py were
\* called with the request as the query
C6_Witness ==
    /\ program = "app" /\ pc = "fuse" /\ ~is_file_analysis
    /\ Logged("extract")
    /\ search_query = TEXT_1
    /\ Len(CallsTo(calls, "search")) = 3

\* the places of the commas of s, with the places before and after s
Cuts(s) == {0, Len(s) + 1} \cup {i \in 1..Len(s) : s[i] = ","}
\* the j-th of them
Cut(s, j) == CHOOSE c \in Cuts(s) : Cardinality({d \in Cuts(s) : d < c}) = j - 1
\* s without the white space around it
Trimmed(s) ==
    LET inked == {i \in 1..Len(s) : s[i] \notin Whitespace}
    IN  IF inked = {} THEN <<>>
        ELSE SubSeq(s, CHOOSE i \in inked : \A j \in inked : i <= j,
                       CHOOSE i \in inked : \A j \in inked : i >= j)
\* the comma-separated tokens of s, trimmed, the empty ones dropped
TokensOf(s) ==
    LET pieces == [j \in 1..(Cardinality(Cuts(s)) - 1) |->
                     Trimmed(SubSeq(s, Cut(s, j) + 1, Cut(s, j + 1) - 1))]
    IN  SelectSeq(pieces, LAMBDA t : t # <<>>)
\* the first n of kl with " OR " between them
RECURSIVE OrJoined(_, _)
OrJoined(kl, n) ==
    IF n = 0 THEN <<>>
    ELSE IF n = 1 THEN kl[1]
    ELSE OrJoined(kl, n - 1) \o <<" ", "O", "R", " ">> \o kl[n]

\* C7: when the completion call succeeds the keyword list is the sequence of
\* the comma-separated tokens of the response, each trimmed, the empty ones
\* dropped, in the order of the response; and in every outcome the lexical
\* query is the keyword list joined with " OR "
C7_KeywordsAndQuery ==
    /\ UnitApplied(Extractors) =>
         /\ unit_arg.outcome.kind = "text" =>
              unit_ret[1] = TokensOf(unit_arg.outcome.content)
         /\ unit_ret[2] = OrJoined(unit_ret[1], Len(unit_ret[1]))
    /\ ( /\ program \in {"app", "function_app"}
         /\ pc \in {"rules", "dictionary", "qa", "fuse", "generate", "store", "respond"}
         /\ ~is_file_analysis ) =>
         /\ search_query = OrJoined(keywords_list, Len(keywords_list))
         /\ \A i \in 1..Len(calls) :
              calls[i].svc = "search" => calls[i].text = search_query

\* C7 witness: a response of which tokens were trimmed and empty tokens dropped
C7_Witness ==
    /\ UnitApplied(Extractors)
    /\ unit_arg.outcome.kind = "text"
    /\ Len(unit_ret[1]) = 3
    /\ Cardinality(Cuts(unit_arg.outcome.content)) > 5
    /\ unit_ret[1][1] = <<"b", " ", "c">>
    /\ unit_ret[1][2] = <<"a">>

\* C8 as stated: the keyword list the extractor returns has at most 5 elements
C8_Original ==
    /\ UnitApplied(Extractors) => Len(unit_ret[1]) <= 5
    /\ program \in {"app", "function_app"} => Len(keywords_list) <= 5

\* the place of the first element of snippet equal to label, 0 when there is none
PlaceOf(snippet, label) ==
    IF \E i \in 1..Len(snippet) : snippet[i] = label
    THEN CHOOSE i \in 1..Len(snippet) :
            snippet[i] = label /\ \A j \in 1..(i - 1) : snippet[j] # label
    ELSE 0
\* what a snippet shows between a label and the label that follows the
\* field, up to the end of the snippet when none follows ("")
Between(snippet, label, following) ==
    LET from == PlaceOf(snippet, label)
        rest == SubSeq(snippet, from + 1, Len(snippet))
        to == IF following = "" \/ PlaceOf(rest, following) = 0
              THEN Len(rest) ELSE PlaceOf(rest, following) - 1
    IN  IF from = 0 THEN <<"(nothing)">> ELSE SubSeq(rest, 1, to)
\* what a snippet of searcher fn shows in the position of a field
Shown(fn, snippet, field) ==
    CASE fn = "search_dictionary_for_terms" ->
            CASE field = "korean" -> Between(snippet, ")] **Korean**: ", " **English**: ")
              [] field = "english" ->
                   Between(snippet, " **English**: ", " **Abbreviation**: ")
              [] field = "abbreviation" ->
                   Between(snippet, " **Abbreviation**: ", " **Description**: ")
              [] OTHER -> Between(snippet, " **Description**: ", "")
      [] fn = "search_qa_for_context" ->
            CASE field = "category" -> Between(snippet, "[Context: QA-", " (Score:")
              [] field = "question" -> Between(snippet, ")] **Question**: ", " **Answer**: ")
              [] OTHER -> Between(snippet, " **Answer**: ", "")
      [] fn = "fa_search_qa_for_context" ->
            CASE field = "category" -> Between(snippet, "[Context: QA-", "] **Question**: ")
              [] field = "question" -> Between(snippet, "] **Question**: ", " **Answer**: ")
              [] OTHER -> Between(snippet, " **Answer**: ", "")
      [] fn = "search_rules_for_context" ->
            CASE field = "category" -> Between(snippet, "[Context: ", " ")
              [] field = "type" -> Between(snippet, " ", " Rule (Score:")
              [] field = "rule_kr" -> Between(snippet, ")] **Rule**: ", " **Example**: ")
              [] OTHER -> Between(snippet, " **Example**: ", "")
      [] OTHER ->
            CASE field = "category" -> Between(snippet, "[Context: ", " ")
              [] field = "type" -> Between(snippet, " ", " Rule] **Rule**: ")
              [] field = "rule_kr" -> Between(snippet, " Rule] **Rule**: ", " **Example**: ")
              [] OTHER -> Between(snippet, " **Example**: ", "")
FieldsOf(fn) ==
    CASE fn = "search_dictionary_for_terms" -> DICTIONARY_FIELDS
      [] fn \in {"search_qa_for_context", "fa_search_qa_for_context"} -> QA_FIELDS
      [] OTHER -> RULES_FIELDS
Missing(hit, field) == field \notin DOMAIN hit \/ hit[field].t = "None"

\* C9 as stated: whatever fields of a hit are missing or null, the searcher
\* returns one snippet per hit, with "N/A" in the position of each missing field
C9_Original ==
    ( /\ UnitApplied(Searchers)
      /\ ~unit_arg.found.raises /\ ~unit_arg.found.iter_raises
      /\ \A i \in 1..Len(unit_arg.found.hits) : ~BadExample(unit_arg.found.hits[i]) ) =>
         /\ Len(unit_ret.value) = Len(unit_arg.found.hits)
         /\ \A i \in 1..Len(unit_arg.found.hits), f \in FieldsOf(unit_arg.fn) :
              Missing(unit_arg.found.hits[i], f) =>
                 Shown(unit_arg.fn, unit_ret.value[i], f) = NA.v

\* the requests of rs that completed
Completed(rs) == {i \in 1..Len(rs) : rs[i] = "completed"}

\* C10: the history has one entry per completed request; it changes only when
\* the request under way completes, by the append of that request's record, so
\* that the entries are in the order of submission; a request that ends in an
\* orchestrator error adds none; and no step, the load of a history item
\* included, removes, moves or changes an entry
C10_HistoryAppendOnly ==
    [][ program = "app" =>
          /\ Len(history) = Cardinality(Completed(requests))
          /\ Len(history') = Cardinality(Completed(requests'))
          /\ Len(history') >= Len(history)
          /\ \A i \in 1..Len(history) : history'[i] = history[i]
          /\ history' # history =>
               /\ pc = "store" /\ Running
               /\ requests' = [requests EXCEPT ![Len(requests)] = "completed"]
               /\ history' = Append(history, result_data)
          /\ (Running /\ requests'[Len(requests)] = "errored") => history' = history
          /\ (Running /\ requests'[Len(requests)] = "completed") =>
               Len(history') = Len(history) + 1
      ]_vars

\* C10 witness: after a completed file analysis and a request that ended in an
\* orchestrator error, the one entry of the history has been loaded
C10_Witness ==
    /\ program = "app" /\ pc = "idle"
    /\ requests = <<"completed", "errored">>
    /\ Len(history) = 1
    /\ history[1].metadata.type = "file-analysis"
    /\ user_input = history[1].question
    /\ current_result = history[1]

\* the run block is past the mode decision
InPipeline == program = "app" /\ pc \in {"extract", "rules", "dictionary", "qa", "fuse",
                                          "generate", "store"}

\* C11 as stated: a request is processed in file-analysis mode exactly when its
\* submission included an uploaded file; a submission of text alone, typed or
\* taken from an example button, is processed in text-question mode whatever
\* came before it in the session
C11_Original ==
    InPipeline =>
       /\ is_file_analysis <=> submission.file.present
       /\ (submission.by = "example" => ~is_file_analysis)

\* the request text, the file content and the label the run block derives from
\* a submission alone
RequestTextOf(sub) ==
    IF sub.file.present THEN analysis_request_text_of(sub.file.name) ELSE sub.text
ContentOf(sub) == IF sub.file.present THEN sub.file.text ELSE <<>>
LabelOf(sub) ==
    IF sub.file.present
    THEN FILE_ANALYSIS \o sub.file.name \o <<" ", "(">>
         \o file_type_of(sub.file.name) \o <<")">>
    ELSE sub.text

\* C12 as stated: but for the history, nothing written while an earlier request
\* was handled reaches a later one: the request text that feeds the queries,
\* the content analysed and the label of the record are those of the submission
\* alone, and every query is made for that request text
C12_Original ==
    InPipeline =>
       /\ user_request = RequestTextOf(submission)
       /\ code_content = ContentOf(submission)
       /\ \A i \in 1..Len(calls) :
            (calls[i].svc = "embed" \/ calls[i].who = "extract") =>
               calls[i].text = RequestTextOf(submission)
       /\ pc = "store" => result_data.question = LabelOf(submission)

\* an earlier request of the session ended in an orchestrator error
ErroredBefore == \E i \in 1..Len(requests) : requests[i] = "errored"

\* C13 as stated: after a request ended in an orchestrator error the history
\* holds the completed requests only, is_processing and run_rag are false, the
\* next submission is accepted, and it is processed as it would have been
\* without the errored request
C13_Original ==
    /\ ( /\ program = "app" /\ pc = "idle"
         /\ requests # <<>> /\ requests[Len(requests)] = "errored" ) =>
          /\ ~is_processing /\ ~run_rag
          /\ Len(history) = Cardinality(Completed(requests))
    /\ (InPipeline /\ ErroredBefore) =>
          /\ Running
          /\ is_file_analysis = submission.file.present
          /\ user_request = RequestTextOf(submission)
          /\ pc = "store" =>
               result_data.metadata.type
                 = IF submission.file.present THEN "file-analysis" ELSE "text-question"

(***************************************************************************)
(* SpecFailures: one request of app.py in which every external call may    *)
(* fail (the completion of the extractor, each embedding call, each search *)
(* call or the iteration over its results, the completion of the generator *)
(* or the analyzer), and in which the script, once in the run block, runs  *)
(* on: no step of it waits for the user.                                   *)
(***************************************************************************)
InitApp ==
    /\ Start({"app"})
    /\ unit_arg = NoArg
    /\ unit_ret = NoArg

\* what a search call may do in SpecFailures: raise, yield results whose
\* iteration raises, or yield one hit
RulesFailures ==
    {SearchRaises, IterationRaises(<<RULES_HIT>>), Found(<<RULES_HIT_BAD>>),
     Found(<<RULES_HIT>>)}
DictionaryFailures ==
    {SearchRaises, IterationRaises(<<DICTIONARY_HIT>>), Found(<<DICTIONARY_HIT>>)}
QAFailures == {SearchRaises, IterationRaises(<<QA_HIT>>), Found(<<QA_HIT>>)}
\* what the text area holds when the run button is pressed
Typed == {<<>>, TEXT_1}
Uploads == {NoFile, JAVA_FILE, BAD_FILE}

NextFailures ==
    \/ ClickRun(Typed, Uploads, 1)
    \/ RunBlock
    \/ Extract(ExtractOutcomes)
    \/ SearchRules(BOOLEAN, RulesFailures)
    \/ SearchDictionary(BOOLEAN, DictionaryFailures)
    \/ SearchQA(BOOLEAN, QAFailures)
    \/ Fuse
    \/ Generate(GenerateOutcomes)
    \/ Except
    \/ Store

\* the script run of a request is not suspended: once in the run block, the
\* stage that can run does run.  A stage is left by its step whatever the
\* outcome of its call, so fairness on the step with a failing call is
\* fairness on the stage
RunsOn ==
    /\ WF_vars(RunBlock)
    /\ WF_vars(Extract({CompletionRaises}))
    /\ WF_vars(SearchRules({TRUE}, {SearchRaises}))
    /\ WF_vars(SearchDictionary({TRUE}, {SearchRaises}))
    /\ WF_vars(SearchQA({TRUE}, {SearchRaises}))
    /\ WF_vars(Fuse)
    /\ WF_vars(Generate({CompletionRaises}))
    /\ WF_vars(Except)
    /\ WF_vars(Store)

SpecFailures == InitApp /\ [][NextFailures]_vars /\ RunsOn

(***************************************************************************)
(* The sessions of app.py with the widgets used while a request is being   *)
(* processed as well: every widget of the page at any stage of the run     *)
(* block.  The external calls return here; SpecFailures has them fail.     *)
(***************************************************************************)
NextSession ==
    \/ ClickRun({<<>>, TEXT_1}, {NoFile, JAVA_FILE, BAD_FILE}, MaxRequests)
    \/ ClickExample({EXAMPLE_1}, MaxRequests)
    \/ ClickHistory
    \/ EditText({<<>>, TEXT_1})
    \/ ChooseFile({NoFile, JAVA_FILE})
    \/ InterruptExample({EXAMPLE_2}, MaxRequests)
    \/ InterruptHistory
    \/ InterruptRun
    \/ RunBlock
    \/ Extract({CompletionText(RESPONSE_1)})
    \/ SearchRules({TRUE}, {Found(<<RULES_HIT>>)})
    \/ SearchDictionary({TRUE}, {Found(<<>>)})
    \/ SearchQA({FALSE}, {Found(<<>>)})
    \/ Fuse
    \/ Generate({CompletionText(ANSWER_1)})
    \/ Except
    \/ Store

SpecSession == InitApp /\ [][NextSession]_vars

(***************************************************************************)
(* The sessions of app.py in any environment: each variable of REQUIRED    *)
(* set or not, the client constructors returning or raising.               *)
(***************************************************************************)
Startups == {Startup(set, constructs) : set \in SUBSET REQUIRED, constructs \in BOOLEAN}

InitStartup ==
    /\ StartWith({"app"}, Startups)
    /\ unit_arg = NoArg
    /\ unit_ret = NoArg

SpecStartup == InitStartup /\ [][NextFailures]_vars

\* C21: when a required endpoint or key is missing at startup, or the
\* construction of a client fails, the script stops before its widgets and
\* its run block: the session stays as initialised, no request is accepted
\* and no extraction, search or generation call is made
C21_StopsAtStartup ==
    ((\E name \in {"OPENAI_ENDPOINT", "OPENAI_KEY", "AZURE_SEARCH_ENDPOINT",
                    "AZURE_SEARCH_API_KEY"} : name \notin startup.set)
       \/ ~startup.constructs)
    => /\ pc = "stopped"
       /\ requests = <<>> /\ calls = <<>>
       /\ ~run_rag /\ ~is_processing /\ history = <<>>
       /\ submission = NoSubmission

\* C21 witness: the process was started without OPENAI_KEY and the script
\* stopped at its top
C21_Witness ==
    /\ program = "app" /\ pc = "stopped" /\ requests = <<>>
    /\ startup.constructs
    /\ startup.set = REQUIRED \ {"OPENAI_KEY"}

(***************************************************************************)
(* The requests of app.py when an external call may never return.  The     *)
(* clients are built without a timeout (app.py 56-75) and no call passes   *)
(* one (app.py 90, 107, 147, 185, 225, 265, 319); the run block calls     *)
(* them on the script thread, so the script stays in a call that does not  *)
(* return.                                                                 *)
(***************************************************************************)
\* the stages of the run block that make an external call
Calling ==
    /\ pc \in {"extract", "rules", "dictionary", "qa", "generate"}
    /\ pc = "generate" =>
         IF is_file_analysis THEN file_mode_analyzes(all_context)
         ELSE text_mode_generates(all_context)

\* the external call of the stage does not return: the script is in the call
\* a searcher makes two calls (app.py 136 and 147, 176 and 185, 216 and 225):
\* when it is the search that does not return, the embedding call was made
\* and returned, and its failure was logged
NeverReturns ==
    /\ program = "app" /\ Calling
    /\ pc' = "in_call"
    /\ \/ UNCHANGED calls
       \/ /\ pc \in {"rules", "dictionary", "qa"}
          /\ \E embed_ok \in BOOLEAN :
               calls' = calls \o embedding_calls(pc, user_request, embed_ok)
    /\ UNCHANGED <<program, startup, session, file_uploader, run_button_disabled, locals, req,
                   http_response, requests, submission, unit>>

NextHang == NextFailures \/ NeverReturns

SpecHang == InitApp /\ [][NextHang]_vars /\ RunsOn

\* C19 as stated: every started request eventually is completed or errored, and
\* the script is ready for the next one with is_processing reset, even when an
\* external call never returns
C19_Original ==
    (program = "app" /\ pc = "run")
      ~> /\ pc = "idle" /\ ~is_processing
         /\ requests # <<>>
         /\ requests[Len(requests)] \in {"completed", "errored"}

\* the stage that follows a stage of the run block
Successor(stage) ==
    CASE stage = "extract" -> "rules"
      [] stage = "rules" -> "dictionary"
      [] stage = "dictionary" -> "qa"
      [] stage = "qa" -> "fuse"
      [] stage = "fuse" -> "generate"
      [] stage = "generate" -> "store"
      [] OTHER -> "idle"

\* the request under way completed and its record is the last of the history
Done ==
    /\ program = "app" /\ pc = "idle"
    /\ requests # <<>> /\ requests[Len(requests)] = "completed"
    /\ Len(history) = Cardinality(Completed(requests))
    /\ current_result = history[Len(history)]

\* C14: no failure of an external call, alone or with others, takes the request
\* to Errored: whatever the outcome of its call each stage hands over to the
\* next one, the request that made an external call is never errored, and a
\* request that entered the pipeline completes and its record is appended to
\* the history
C14_FailuresNeverError ==
    /\ [][ InPipeline =>
             /\ pc' = Successor(pc)
             /\ IF pc = "store"
                THEN /\ requests' = [requests EXCEPT ![Len(requests)] = "completed"]
                     /\ Len(history') = Len(history) + 1
                ELSE requests' = requests /\ history' = history
         ]_vars
    /\ []( (program = "app" /\ requests # <<>> /\ requests[Len(requests)] = "errored")
             => calls = <<>> )
    /\ (InPipeline ~> Done)

\* how many errors were logged by who
Errors(who) == Len(CallsIn(calls, "log", who))

\* C14 witness: a file analysis in which every external call failed has
\* completed, and its record is in the history
C14_Witness ==
    /\ Done /\ requests = <<"completed">>
    /\ history[1].metadata.type = "file-analysis"
    /\ Errors("extract") = 1 /\ Errors("embedding") = 3
    /\ Errors("rules") = 1 /\ Errors("dictionary") = 1 /\ Errors("qa") = 1
    /\ Errors("analyze") = 1

\* whether an answer is a text that shows the reason of a failure
ShowsReason(answer) ==
    answer.t = "str" /\ \E i \in 1..Len(answer.v) : <<answer.v[i]>> = REASON

\* C15: generate_response_with_llm and analyze_code_with_llm never raise: a
\* request that called one of them is not errored; when their completion call
\* failed the answer is their error string, which shows the reason of the
\* failure, and that string is the answer of the record appended to the history
C15_GeneratorsNeverRaise ==
    /\ ( /\ program = "app" /\ requests # <<>>
         /\ \E i \in 1..Len(calls) : calls[i].who \in {"generate", "analyze"} ) =>
          requests[Len(requests)] # "errored"
    /\ (program = "app" /\ pc = "store" /\ Logged("generate")) =>
          /\ final_answer = PyStr(<<"GENERATION_ERROR(">> \o REASON \o <<")">>)
          /\ result_data.answer = final_answer
    /\ (program = "app" /\ pc = "store" /\ Logged("analyze")) =>
          /\ final_answer = PyStr(<<"ANALYSIS_ERROR(">> \o REASON \o <<")">>)
          /\ result_data.answer = final_answer
    /\ ( /\ program = "app" /\ pc = "idle"
         /\ (Logged("generate") \/ Logged("analyze")) ) =>
          /\ requests[Len(requests)] = "completed"
          /\ history # <<>>
          /\ ShowsReason(history[Len(history)].answer)
          /\ history[Len(history)].answer
               = PyStr((IF Logged("generate") THEN <<"GENERATION_ERROR(">>
                        ELSE <<"ANALYSIS_ERROR(">>) \o REASON \o <<")">>)

\* C15 witness: the completion call of the generator failed and the record of
\* the request, in the history, has the error string as its answer
C15_Witness ==
    /\ program = "app" /\ pc = "idle" /\ Logged("generate")
    /\ Len(history) = 1
    /\ history[1].metadata.type = "text-question"
    /\ history[1].answer = PyStr(<<"GENERATION_ERROR(", "<reason>", ")">>)

\* the places in the log of the calls of a kind
PlacesOf(svcs, whos) ==
    {i \in 1..Len(calls) : calls[i].svc \in svcs /\ calls[i].who \in whos}
Before(I, J) == \A i \in I, j \in J : i < j

\* C16: within a request of app.py the extractor is called first and has
\* returned before any searcher is invoked; the bundle is built, and the
\* generator or the analyzer invoked, only after the three searchers were
\* called, rules then dictionary then Q&A; and the lexical query of every
\* search call is the query the extractor returned for this request
C16_StageOrder ==
    (program = "app" /\ pc # "idle") =>
       LET extraction == PlacesOf({"complete", "log"}, {"extract"})
           searching == PlacesOf({"embed", "search", "log"}, Collections \cup {"embedding"})
           generation == PlacesOf({"complete", "log"}, {"generate", "analyze"})
       IN  /\ calls # <<>> => calls[1].svc = "complete" /\ calls[1].who = "extract"
           /\ Before(extraction, searching)
           /\ Before(searching, generation)
           /\ Before(PlacesOf({"search"}, {"rules"}), PlacesOf({"search"}, {"dictionary"}))
           /\ Before(PlacesOf({"search"}, {"dictionary"}), PlacesOf({"search"}, {"qa"}))
           /\ pc \in {"rules", "dictionary", "qa"} =>
                /\ extraction # {} /\ generation = {}
                /\ all_context = <<>>
           /\ (pc \in {"generate", "store"} \/ generation # {}) =>
                \A who \in Collections : Len(CallsIn(calls, "search", who)) = 1
           /\ \A i \in PlacesOf({"search"}, Collections) :
                /\ calls[i].text = search_query
                /\ IF Logged("extract") THEN search_query = calls[1].text
                   ELSE \E r \in {RESPONSE_1, BLANK_RESPONSE} :
                           search_query = OrJoined(TokensOf(r), Len(TokensOf(r)))

\* C16 witness: a text question of which the extractor, the three searchers with
\* their embeddings, and the generator were called, in this order
C16_Witness ==
    /\ program = "app" /\ pc = "store" /\ ~is_file_analysis
    /\ Len(calls) = 8
    /\ [i \in 1..8 |-> calls[i].who]
         = <<"extract", "rules", "rules", "dictionary", "dictionary", "qa", "qa", "generate">>
    /\ [i \in 1..8 |-> calls[i].svc]
         = <<"complete", "embed", "search", "embed", "search", "embed", "search", "complete">>

\* the first n of parts, one per line
RECURSIVE Lines(_, _)
Lines(parts, n) ==
    IF n = 0 THEN <<>>
    ELSE IF n = 1 THEN parts[1]
    ELSE Lines(parts, n - 1) \o <<"\n">> \o parts[n]

\* the context field of a record for the snippets of one collection
FieldOf(snippets, placeholder) ==
    IF snippets = <<>> THEN placeholder ELSE Lines(snippets, Len(snippets))

\* the calls made to the generator or the analyzer
Generations == SelectSeq(calls, LAMBDA c : c.svc = "complete" /\ c.who \in {"generate", "analyze"})

\* each context field of the record about to be stored is made of the snippets
\* of its own collection alone
FieldsPerCollection ==
    /\ result_data.rules_context
         = FieldOf(rules_context,
                   IF is_file_analysis THEN <<"NO_RULES_CONTEXT">> ELSE <<"NO_CONTEXT">>)
    /\ result_data.dictionary_context
         = FieldOf(dictionary_context,
                   IF is_file_analysis THEN <<"NO_DICTIONARY_CONTEXT">> ELSE <<"NO_CONTEXT">>)
    /\ result_data.qa_context
         = FieldOf(qa_context,
                   IF is_file_analysis THEN <<"NO_QA_CONTEXT">> ELSE <<"NO_CONTEXT">>)

\* C17, as amended: when the search of the rules searcher fails the request
\* still completes; the rules field of its record is the placeholder, the
\* dictionary and Q&A fields are made of their own snippets, and the generator
\* is called with dictionary ++ Q&A when that is not empty (the analyzer, in
\* file-analysis mode, in any case), while a text question for which the other
\* two searchers found nothing either gets the fixed answer without a call;
\* in every request each context field is the snippets of its collection, one
\* per line, or the placeholder when there is none
C17_RulesFailureScenario ==
    /\ (program = "app" /\ pc = "store") =>
         /\ FieldsPerCollection
         /\ Logged("rules") =>
              /\ Running
              /\ rules_context = <<>>
              /\ result_data.rules_context
                   = IF is_file_analysis THEN <<"NO_RULES_CONTEXT">> ELSE <<"NO_CONTEXT">>
              /\ IF is_file_analysis \/ dictionary_context \o qa_context # <<>>
                 THEN /\ Len(Generations) = 1
                      /\ Generations[1].context
                           = Lines(dictionary_context \o qa_context,
                                   Len(dictionary_context) + Len(qa_context))
                 ELSE /\ Len(Generations) = 0
                      /\ result_data.answer = PyStr(NO_CONTEXT_ANSWER)
    /\ (program = "app" /\ pc = "idle" /\ Logged("rules")) =>
         /\ requests[Len(requests)] = "completed"
         /\ history # <<>>
         /\ history[Len(history)].rules_context \in {<<"NO_RULES_CONTEXT">>, <<"NO_CONTEXT">>}

\* C17 witness: the rules search failed, the record of the text question is in
\* the history with the placeholder for the rules and the snippets of the other
\* two collections, and the generator was called
C17_Witness ==
    /\ program = "app" /\ pc = "idle" /\ Logged("rules")
    /\ Len(history) = 1 /\ history[1].metadata.type = "text-question"
    /\ history[1].rules_context = <<"NO_CONTEXT">>
    /\ history[1].dictionary_context = dictionary_snippet(DICTIONARY_HIT)
    /\ history[1].qa_context = qa_snippet(QA_HIT) \o <<"\n">> \o qa_snippet(QA_HIT)
    /\ Len(Generations) = 1

\* C17 as stated: whenever the rules search fails, the generator is called with
\* the remaining context
C17_Original ==
    /\ C17_RulesFailureScenario
    /\ (program = "app" /\ pc = "store" /\ Logged("rules")) =>
         /\ Len(Generations) = 1
         /\ Generations[1].context
              = Lines(dictionary_context \o qa_context,
                      Len(dictionary_context) + Len(qa_context))

\* the analysis request of a file, from its name alone
AnalysisTextFor(name) ==
    <<"ANALYSIS_REQUEST: ", name[1]>> \o Tail(name) \o <<" file (">>
    \o file_type_of(name) \o <<") naming, terms, practice">>

\* C18: in file-analysis mode the text given to the extractor and, as the
\* embedding input, to the three searchers is the analysis request made of
\* the file name and its extension; the lexical query is what the extractor
\* returned for it; no call carries the text of the text area; and the record
\* is made of the file name, the file content and what the calls returned, so
\* that the free text typed with the file changes neither queries nor record
C18_FileModeQueries ==
    (InPipeline /\ is_file_analysis) =>
       LET t == AnalysisTextFor(uploaded_file.name)
       IN  /\ user_request = t
           /\ \A i \in 1..Len(calls) :
                /\ (calls[i].who = "extract" /\ calls[i].svc = "complete") => calls[i].text = t
                /\ calls[i].svc = "embed" => calls[i].text = t
                /\ calls[i].svc = "search" =>
                     /\ calls[i].text = search_query
                     /\ search_query
                          \in {t, OrJoined(TokensOf(RESPONSE_1), Len(TokensOf(RESPONSE_1)))}
                /\ user_input # <<>> => calls[i].text # user_input
           /\ pc = "store" =>
                /\ final_answer
                     \in {PyNone, PyStr(ANSWER_1),
                          PyStr(<<"ANALYSIS_ERROR(">> \o REASON \o <<")">>)}
                /\ Len(Generations) = 1
                /\ Generations[1].text
                     = uploaded_file.name \o <<"|">> \o file_type_of(uploaded_file.name)
                       \o <<"|">> \o numbered(code_content)
                /\ result_data.question
                     = <<"[", "<U+D30C>", "<U+C77C>", " ", "<U+BD84>", "<U+C11D>", "]", " ">>
                       \o uploaded_file.name \o <<" ", "(">>
                       \o file_type_of(uploaded_file.name) \o <<")">>
                /\ result_data.answer = final_answer
                /\ result_data.metadata
                     = [type |-> "file-analysis", query |-> search_query,
                        count |-> Len(all_context), file_size |-> encoded_len(code_content)]
                /\ FieldsPerCollection

\* C18 witness: a file analysis submitted together with a typed text is about to
\* be stored; its extractor and its searchers were called for the file name, and
\* the 6 characters of the file are recorded as 10 bytes
C18_Witness ==
    /\ program = "app" /\ pc = "store" /\ is_file_analysis
    /\ user_input = TEXT_1
    /\ uploaded_file.name = <<"S", ".", "j", "a", "v", "a">>
    /\ calls[1].text = <<"ANALYSIS_REQUEST: ", "S", ".", "j", "a", "v", "a", " file (",
                         "J", "A", "V", "A", ") naming, terms, practice">>
    /\ Len(CallsTo(calls, "embed")) = 3
    /\ ~Logged("extract")
    /\ Len(code_content) = 6
    /\ result_data.metadata.file_size = 10

\* the fields a Result Record is to carry, and those of its metadata
RecordFields == {"question", "answer", "rules_context", "dictionary_context", "qa_context"}
MetadataFields == {"type", "query", "keywords", "count"}

\* C20 as stated: every record appended to the history, of a text question and
\* of a file analysis alike, carries the label, the answer, the query used, the
\* keyword list, the three context strings, the mode tag and a count that is
\* the number of rules, dictionary and Q&A snippets of its request
C20_Original ==
    program = "app" =>
       /\ \A i \in 1..Len(history) :
            /\ RecordFields \subseteq DOMAIN history[i]
            /\ MetadataFields \subseteq DOMAIN history[i].metadata
            /\ history[i].metadata.type \in {"text-question", "file-analysis"}
       /\ pc = "store" =>
            result_data.metadata.count
              = Len(rules_context) + Len(dictionary_context) + Len(qa_context)

\* the requests that are being processed
Under_way(rs) == {i \in 1..Len(rs) : rs[i] = "running"}

\* the requests that did not end in an error
NotErrored(rs) == {i \in 1..Len(rs) : rs[i] # "errored"}

SnippetOf(fn, hit) ==
    CASE fn = "search_rules_for_context" -> rules_snippet(hit)
      [] fn = "search_dictionary_for_terms" -> dictionary_snippet(hit)
      [] fn = "search_qa_for_context" -> qa_snippet(hit)

\* C23: a searcher of app.py whose search returned hits returns one snippet
\* per hit, the i-th snippet made of the i-th hit; the bundle is the rules,
\* dictionary and Q&A snippets in that order, and each context string of the
\* record is the snippets of its collection in the searcher's order, one per
\* line
C23_OneSnippetPerHit ==
    /\ ( /\ UnitApplied(AppSearchers)
         /\ ~unit_arg.found.raises /\ ~unit_arg.found.iter_raises
         /\ \A i \in 1..Len(unit_arg.found.hits) : ~BadExample(unit_arg.found.hits[i]) ) =>
            /\ ~unit_ret.raised
            /\ Len(unit_ret.value) = Len(unit_arg.found.hits)
            /\ \A i \in 1..Len(unit_arg.found.hits) :
                 unit_ret.value[i] = SnippetOf(unit_arg.fn, unit_arg.found.hits[i])
    /\ (program = "app" /\ pc \in {"generate", "store"}) =>
         /\ Len(all_context)
              = Len(rules_context) + Len(dictionary_context) + Len(qa_context)
         /\ \A i \in 1..Len(rules_context) : all_context[i] = rules_context[i]
         /\ \A i \in 1..Len(dictionary_context) :
              all_context[Len(rules_context) + i] = dictionary_context[i]
         /\ \A i \in 1..Len(qa_context) :
              all_context[Len(rules_context) + Len(dictionary_context) + i] = qa_context[i]
    /\ (program = "app" /\ pc = "store" /\ Len(qa_context) = 2) =>
         result_data.qa_context = qa_context[1] \o <<"\n">> \o qa_context[2]

\* C23 witness: the Q&A searcher was given two different hits and returned the
\* snippet of the first, then the snippet of the second
C23_Witness ==
    /\ UnitApplied({"search_qa_for_context"})
    /\ unit_arg.found.hits = <<QA_HIT_2, QA_HIT>>
    /\ unit_ret.value = <<qa_snippet(QA_HIT_2), qa_snippet(QA_HIT)>>
    /\ qa_snippet(QA_HIT_2) # qa_snippet(QA_HIT)

\* the text an ingestion script embeds for an item of its data file
TextToEmbed(fn, doc) ==
    CASE fn = "dd_upload_data_with_vectors" -> dd_text_to_embed(doc)
      [] fn = "qa_upload_data_with_vectors" -> qa_text_to_embed(doc)
      [] fn = "nr_upload_data_with_vectors" -> nr_text_to_embed(doc)

\* the embedding calls made and the documents of the batch uploaded
EmbedTexts == {unit_ret.calls[i].text : i \in {j \in 1..Len(unit_ret.calls) :
                                                 unit_ret.calls[j].svc = "embed"}}
Uploaded == {unit_ret.value[i] : i \in 1..Len(unit_ret.value)}

\* C24 as stated: in each of the three ingestion scripts no embedding call is
\* made for a document whose text to embed is empty or shorter than 5
\* characters, and the document is not in the batch uploaded
C24_Original ==
    UnitApplied(Ingestions) =>
       \A i \in 1..Len(unit_arg.data) :
          LET doc == unit_arg.data[i]
          IN  (doc.t = "dict" /\ too_short(TextToEmbed(unit_arg.fn, doc.v))) =>
                 /\ TextToEmbed(unit_arg.fn, doc.v) \notin EmbedTexts
                 /\ \A u \in Uploaded : without(u.v, {"id", "vector_embedding"})
                                          # without(doc.v, {"id", "id_num"})

\* the items of the data file that carry an id of their own have different ids
ExplicitIdsDiffer(data) ==
    \A i, j \in 1..Len(data) :
       ( /\ i < j
         /\ data[i].t = "dict" /\ data[j].t = "dict"
         /\ "id" \in DOMAIN data[i].v /\ "id" \in DOMAIN data[j].v ) =>
            data[i].v["id"] # data[j].v["id"]

\* C25 as stated: every document of a batch an ingestion script uploads has a
\* string id and a vector that is not empty, and the ids of the batch are
\* pairwise different, also when some items of the data file carry an id and
\* the others get the default idx + 1
C25_Original ==
    UnitApplied(Ingestions) =>
       /\ \A i \in 1..Len(unit_ret.value) :
            /\ unit_ret.value[i].v["id"].t = "str"
            /\ unit_ret.value[i].v["vector_embedding"].t = "list"
            /\ unit_ret.value[i].v["vector_embedding"].v # <<>>
       /\ ExplicitIdsDiffer(unit_arg.data) =>
            \A i, j \in 1..Len(unit_ret.value) :
               i < j => unit_ret.value[i].v["id"] # unit_ret.value[j].v["id"]

\* the number written by the digits ds, or -1 when ds is not made of digits
RECURSIVE NumberOf(_)
NumberOf(ds) ==
    IF ds = <<>> THEN 0
    ELSE LET last == ds[Len(ds)]
             front == NumberOf(SubSeq(ds, 1, Len(ds) - 1))
         IN  IF front < 0 \/ \A d \in 0..9 : ToString(d) # last THEN -1
             ELSE 10 * front + (CHOOSE d \in 0..9 : ToString(d) = last)

\* the characters of a rendered line in front of its first colon
PrefixOf(rendered) == Head(split(rendered, ":"))

\* the lines of the listing unit_ret holds
Listing == IF unit_ret.value = <<>> THEN <<>> ELSE split(unit_ret.value, "\n")

\* C26, as amended: the listing analyze_code_with_llm renders has one line per
\* line of the code, in order; the i-th is the number i in decimal, with zeros
\* in front up to a width of 4, then a colon, a blank and the line itself: 4
\* digits up to line 9999 and all the digits of i from line 10000 on
C26_NumberedListing ==
    /\ UnitApplied({"numbered"}) =>
         LET lines == splitlines(unit_arg.code)
         IN  /\ Len(Listing) = Len(lines)
             /\ \A i \in 1..Len(lines) :
                  /\ Len(PrefixOf(Listing[i])) = 4
                  /\ NumberOf(PrefixOf(Listing[i])) = i
                  /\ Listing[i] = PrefixOf(Listing[i]) \o <<":", " ">> \o lines[i]
    /\ UnitApplied({"numbered_line"}) =>
         LET n == unit_arg.index + 1
             prefix == PrefixOf(unit_ret.value)
         IN  /\ NumberOf(prefix) = n
             /\ Len(prefix) = IF n < 10000 THEN 4 ELSE Len(digits(n))
             /\ n >= 10000 => prefix[1] # "0"
             /\ unit_ret.value = prefix \o <<":", " ">> \o unit_arg.line

\* C26 witness: a code of three lines, the second empty, was rendered, and so
\* was line 9999
C26_Witness ==
    \/ /\ UnitApplied({"numbered"})
       /\ unit_arg.code = <<"x", "\n", "\n", "x">>
       /\ Listing = << <<"0", "0", "0", "1", ":", " ", "x">>,
                       <<"0", "0", "0", "2", ":", " ">>,
                       <<"0", "0", "0", "3", ":", " ", "x">> >>
    \/ /\ UnitApplied({"numbered_line"})
       /\ unit_arg.index = 9998
       /\ unit_ret.value = <<"9", "9", "9", "9", ":", " ", "x">>

\* C26 as stated: the number of every line is written with exactly 4 digits
C26_Original ==
    UnitApplied({"numbered_line"}) =>
       /\ Len(PrefixOf(unit_ret.value)) = 4
       /\ NumberOf(PrefixOf(unit_ret.value)) = unit_arg.index + 1

\* C27: the run button pressed with an empty text area and no file starts
\* nothing: run_rag and is_processing are false before and after, the run
\* block is not entered, no request and no call is made, current_result,
\* uploaded_file and the history are as before, and of the session state only
\* show_warning_empty is set
C27_EmptySubmissionStartsNothing ==
    [][ ClickRun({<<>>}, {NoFile}, MaxRequests) =>
          /\ ~run_rag /\ ~run_rag'
          /\ ~is_processing /\ ~is_processing'
          /\ show_warning_empty'
          /\ pc' = "idle"
          /\ requests' = requests /\ calls' = calls /\ submission' = submission
          /\ current_result' = current_result
          /\ uploaded_file' = uploaded_file
          /\ history' = history
          /\ show_warning' = show_warning
          /\ show_result' = show_result
      ]_vars

\* C27 witness: after a request has completed, the run button was pressed with
\* nothing to submit
C27_Witness ==
    /\ program = "app" /\ pc = "idle"
    /\ show_warning_empty
    /\ user_input = <<>> /\ file_uploader = NoFile
    /\ history # <<>> /\ current_result = history[Len(history)]

\* C28: the run button pressed while a request is being processed sets
\* show_warning and nothing else of the session state: run_rag, is_processing,
\* current_result, uploaded_file, user_input and the history are as before, and
\* no further request comes under way (the script runs again for the request
\* that was being processed)
C28_SecondClickOnlyWarns ==
    [][ InterruptRun =>
          /\ is_processing /\ is_processing'
          /\ show_warning'
          /\ run_rag' = run_rag
          /\ current_result' = current_result
          /\ uploaded_file' = uploaded_file
          /\ user_input' = user_input
          /\ history' = history
          /\ show_warning_empty' = show_warning_empty
          /\ show_result' = show_result
          /\ requests' = requests /\ submission' = submission
      ]_vars

\* C28 witness: the first request of the session was submitted by an example
\* button and is being processed; the run button was pressed meanwhile (no
\* other step sets show_warning), and the script has run again for the
\* same request
C28_Witness ==
    /\ program = "app" /\ pc = "run" /\ is_processing /\ run_rag
    /\ show_warning
    /\ requests = <<"running">>
    /\ submission.by = "example"
    /\ user_input = submission.text
    /\ history = <<>>

\* C29 as stated: while a request is being processed no step of the session
\* puts another request under way, changes the text being processed or
\* changes current_result
C29_Original ==
    [][ (program = "app" /\ is_processing /\ is_processing') =>
          /\ Len(requests') = Len(requests)
          /\ user_input' = user_input
          /\ current_result' = current_result
      ]_vars

\* C30 as stated: once the run block has been left, on whichever path,
\* is_processing and run_rag are false and the run button is enabled
C30_Original ==
    (program = "app" /\ pc = "idle") =>
       /\ ~is_processing
       /\ ~run_rag
       /\ ~run_button_disabled

\* the places of the search calls of the request under way
Searches == {i \in 1..Len(calls) : calls[i].svc = "search"}

\* the embedding call a search call follows: the last one made before it
EmbeddingFor(i) ==
    CHOOSE e \in 1..(i - 1) :
       /\ calls[e].svc = "embed"
       /\ \A j \in (e + 1)..(i - 1) : calls[j].svc # "embed"

\* the embedding call at place e raised: generate_embedding logged the error
EmbeddingFailed(e) ==
    e < Len(calls) /\ calls[e + 1].svc = "log" /\ calls[e + 1].who = "embedding"

\* C31: in a request of app.py every search call follows an embedding call of
\* the same searcher for the request text, no two search calls share one, the
\* search call carries a vector query exactly when that embedding call of its
\* own did not fail, whatever the embedding calls of the other searchers did,
\* and every search call carries the extractor's lexical query
C31_DegradationPerSearchCall ==
    (program = "app" /\ pc \notin {"idle", "run", "stopped"}) =>
       /\ \A i \in Searches :
            /\ \E e \in 1..(i - 1) : calls[e].svc = "embed"
            /\ calls[EmbeddingFor(i)].who = calls[i].who
            /\ calls[EmbeddingFor(i)].text = user_request
            /\ (calls[i].vector_queries # <<>>) <=> ~EmbeddingFailed(EmbeddingFor(i))
            /\ calls[i].text = search_query
       /\ \A i, j \in Searches : i # j =>
            /\ EmbeddingFor(i) # EmbeddingFor(j)
            /\ calls[i].who # calls[j].who
       /\ Len(CallsTo(calls, "embed")) = Cardinality(Searches)

\* C31 witness: the three searchers have run in one request; the embedding of
\* the dictionary searcher alone failed, and the rules and the Q&A search
\* carried a vector query while the dictionary search carried none
C31_Witness ==
    /\ program = "app" /\ pc = "fuse"
    /\ Cardinality(Searches) = 3
    /\ \A i \in Searches :
         (calls[i].vector_queries = <<>>) <=> (calls[i].who = "dictionary")

\* the i-th snippet of r is the snippet of the i-th hit, for every hit
OnePerHit(a, r) ==
    /\ Len(r.value) = Len(a.found.hits)
    /\ \A i \in 1..Len(a.found.hits) : r.value[i] = SnippetOf(a.fn, a.found.hits[i])

\* C32: a searcher of app.py returns one snippet for every hit, or the empty
\* list, and the empty list whenever the search, the iteration or the
\* formatting of a hit raised, however many hits were formatted before; in
\* the run block a searcher that logged an error left nothing in its
\* collection, and the bundle is made of the other two collections
C32_AllOrNothing ==
    /\ UnitApplied(AppSearchers) =>
         /\ unit_ret.value = <<>> \/ OnePerHit(unit_arg, unit_ret)
         /\ SearchFails(unit_arg) => unit_ret.value = <<>>
    /\ (program = "app" /\ pc \in {"generate", "store"}) =>
         /\ Logged("rules") => all_context = dictionary_context \o qa_context
         /\ Logged("dictionary") => all_context = rules_context \o qa_context
         /\ Logged("qa") => all_context = rules_context \o dictionary_context

\* C32 witness: the rules searcher formatted a first hit, could not format
\* the second, and returned the empty list
C32_Witness ==
    /\ UnitApplied({"search_rules_for_context"})
    /\ unit_arg.found = Found(<<RULES_HIT, RULES_HIT_BAD>>)
    /\ ~rules_snippet_raises(RULES_HIT) /\ rules_snippet(RULES_HIT) # <<>>
    /\ rules_snippet_raises(RULES_HIT_BAD)
    /\ unit_ret.value = <<>>

\* no character of s belongs to a keyword: s is made of blanks, line ends and
\* commas
NoKeywordIn(s) == \A i \in 1..Len(s) : s[i] \in Whitespace \cup {","}

\* C33: when the completion call of the extractor of app.py returns a text
\* without any keyword, extract_keywords_with_llm returns ([], "") and not
\* the request, logs nothing, and the run block goes on: the three searchers
\* are called, each with the empty lexical query
C33_EmptyExtraction ==
    /\ ( /\ UnitApplied({"extract_keywords_with_llm"})
         /\ unit_arg.outcome.kind = "text"
         /\ NoKeywordIn(unit_arg.outcome.content) ) =>
            unit_ret = << <<>>, <<>> >>
    /\ ( /\ program = "app"
         /\ pc \in {"rules", "dictionary", "qa", "fuse", "generate"}
         /\ ~Logged("extract") /\ search_query = <<>> ) =>
            /\ Running
            /\ user_request # <<>>
            /\ ~is_file_analysis => keywords_list = <<>>
            /\ \A i \in 1..Len(calls) : calls[i].svc = "search" => calls[i].text = <<>>
            /\ pc \in {"fuse", "generate"} =>
                 \A who \in Collections : Len(CallsIn(calls, "search", who)) = 1

\* C33 witness: the extractor's response held no keyword and the three
\* searchers of a text question were called with the empty query
C33_Witness ==
    /\ program = "app" /\ pc = "fuse" /\ ~is_file_analysis
    /\ ~Logged("extract")
    /\ keywords_list = <<>> /\ search_query = <<>>
    /\ Len(CallsTo(calls, "search")) = 3
    /\ \A i \in Searches : calls[i].text = <<>>

\* the request under way was submitted with a file that cannot be decoded,
\* and the file has been read
ReadFailed ==
    /\ program = "app" /\ Running
    /\ submission.by = "run" /\ submission.file.present /\ ~submission.file.valid
    /\ uploaded_file.present /\ uploaded_file.pos = 1

\* C34 as stated: no external call has been made when the run block is
\* entered, and a request whose file could not be decoded ends as errored with
\* no external call made, the history as before, and is_processing and run_rag
\* false
C34_Original ==
    [][ /\ (program = "app" /\ pc = "run") => calls = <<>>
        /\ (ReadFailed /\ requests' # requests) =>
             /\ requests' = [requests EXCEPT ![Len(requests)] = "errored"]
             /\ calls' = <<>>
             /\ history' = history
             /\ ~is_processing' /\ ~run_rag'
      ]_vars

\* the body of the request is a JSON object with a request_text that is
\* neither missing nor empty
WellFormed(body) ==
    /\ body.kind = "object" /\ body.has_text
    /\ body.request_text # <<>>

\* C35 as stated: main answers 400, without any call made, exactly when the
\* body is no JSON object or its request_text is missing or empty, and
\* answers every other request with 200 and the three fields
C35_Original ==
    (program = "function_app" /\ pc = "idle" /\ requests # <<>>) =>
       IF WellFormed(req)
       THEN /\ http_response.status_code = 200
            /\ DOMAIN http_response
                 = {"final_answer", "status_code", "search_query_used",
                    "retrieved_context_count"}
       ELSE /\ http_response.status_code = 400
            /\ calls = <<>>

\* C36 as stated: the history button at place p of the sidebar, from the top,
\* loads the record it shows, the p-th newest, into current_result, puts the
\* question of that record in user_input and sets show_result; the history,
\* run_rag and is_processing are as before, no request is added, and pressed
\* while the script is idle it starts no pipeline run.  Each button hands over
\* the index, from 0, of the record it shows, and its label is the memo sign,
\* a space, the first 30 characters of the question of that record and three
\* dots
C36_Original ==
    [][ /\ \A p \in 1..Len(history) :
             PressHistory(p) =>
                LET shown == history[Len(history) + 1 - p]
                IN  /\ current_result' = shown
                    /\ user_input' = shown.question
                    /\ show_result'
                    /\ history' = history
                    /\ run_rag' = run_rag
                    /\ is_processing' = is_processing
                    /\ requests' = requests
                    /\ pc = "idle" => (pc' = "idle" /\ calls' = calls)
        /\ program = "app" =>
             /\ Len(history_buttons(history)) = Len(history)
             /\ \A p \in 1..Len(history) :
                  LET shown == history[Len(history) + 1 - p]
                      button == history_buttons(history)[p]
                      kept == IF Len(shown.question) < 30 THEN Len(shown.question) ELSE 30
                  IN  /\ button.args = Len(history) - p
                      /\ history[button.args + 1] = shown
                      /\ Len(button.label) = kept + 5
                      /\ button.label[1] = "<U+1F4DD>" /\ button.label[2] = " "
                      /\ \A j \in 1..kept : button.label[2 + j] = shown.question[j]
                      /\ \A j \in 1..3 : button.label[kept + 2 + j] = "."
      ]_vars

====
